---- MODULE Spec2Model ----
(***************************************************************************)
(* A model of the impulse peer-discovery library: the capability-gated     *)
(* sharing policy, the ARIS token bucket, the ARISRobot discovery loop     *)
(* (protocol/aris.hpp), the Aris participant (protocol/message.hpp), the   *)
(* Agent built on Transport<Discovery> (agents.hpp revisions) and the      *)
(* impulse::Transport engine with continuous broadcast (transport.hpp).    *)
(*                                                                         *)
(* The repository holds several alternative programs.  `program` says      *)
(* which one a behaviour is about; the state of the others stays idle.     *)
(***************************************************************************)
EXTENDS Integers, Sequences, FiniteSets, TLC

VARIABLES
    program,            \* which program of the repository this behaviour runs
    net,                \* ARISRobots that share a multicast group, and their datagrams
    codec,              \* a message, the buffer serialize filled from it and the message
                        \* deserialize made of the buffer
    \* ---- sharing policy evaluated by two participants P and Q about each other
    cap,                \* [{"P","Q"} -> capability_index_]
    decision,           \* [{"P","Q"} -> "undecided" | "accept" | "reject"]
    \* ---- token bucket (ARISRobot::tokens_, last_token_update_)
    tokens_,            \* std::atomic<int> tokens_
    elapsed,            \* steady_clock::now() - last_token_update_, in ms
    last_consume,       \* what the last consume_tokens call was asked and returned
    last_refill,        \* new_tokens of the last update_tokens call (0 when it added none)
    \* ---- participant (ARISRobot of aris.hpp, Aris of message.hpp)
    capability_index_,
    chosen_protocol_,
    known_robots_,      \* std::map<std::string, AgentMessage>, as a function on its keys
    running_,           \* std::atomic<bool> running_
    multicast_fd_,      \* "closed" (-1) or "open"
    main_pc,            \* position of the owner thread (constructor / start / stop)
    pc,                 \* position of the discovery thread
    heard_network,      \* local of discovery_loop
    i,                  \* loop counter of the receive bursts
    listen_duration,    \* seconds drawn by dis(gen)
    listen_elapsed,     \* steady_clock::now() - listen_start, in ms
    last_rx,            \* the path the last inbound payload took through the receive code
    last_sent,          \* the announcement put on the multicast group by the last step
    \* ---- Transport<MessageT> with continuous broadcast, and the clocks it reads
    transport_running_, \* Transport::running_
    continuous_,        \* Transport::continuous_
    timer_pc,           \* position of Transport::message_loop
    last_broadcast,     \* local of message_loop (steady clock, ms)
    wire,               \* the Discovery message handed to multicast_message by the last step
    uptime_ms,          \* real time since the program started
    wall_at_start,      \* system_clock (ms since its epoch) when the program started
    steady_at_start,    \* steady_clock (ms since its own epoch) when the program started
    \* ---- Agent of agents.hpp (second revision), on Transport<Discovery>
    known_agents_,      \* std::map<std::string, Discovery>
    broadcast_message_, \* Transport::broadcast_message_
    has_broadcast_message_,
    refreshes,          \* how often send_discovery has been called, while it is counted
    \* ---- impulse::Transport<Discovery> as used by the Agent of examples/aris.cpp
    message_,           \* Transport::message_
    interval_,          \* Transport::interval_, ms
    message_handler_,   \* which handler is registered ("none" when empty)
    all_discoveries_,   \* Agent::all_discoveries_
    owner_pc,           \* position of the thread that constructs and drives the Agent
    last_dispatch,      \* the path the last inbound payload took through the engine
    broadcast_args,     \* arguments of the set_broadcast call under way or last made
    observed,           \* what an observer of the multicast stream has noted
    handler_log,        \* the handlers registered so far, and the calls the last inbound
                        \* payload made to handlers
    all_communication_, \* Agent::all_communication_
    all_position_       \* Agent::all_position_

policyVars == <<cap, decision>>
bucketVars == <<tokens_, elapsed, last_consume, last_refill>>
robotVars  == <<capability_index_, chosen_protocol_, known_robots_, running_, multicast_fd_,
                main_pc, pc, heard_network, i, listen_duration, listen_elapsed, last_rx,
                last_sent>>
transportVars == <<transport_running_, continuous_, timer_pc, last_broadcast, wire, uptime_ms,
                   wall_at_start, steady_at_start, last_dispatch>>
agentVars  == <<known_agents_, broadcast_message_, has_broadcast_message_, refreshes>>
engineVars == <<message_, interval_, message_handler_, all_discoveries_, owner_pc,
                broadcast_args, observed, handler_log, all_communication_, all_position_>>
vars == <<program, codec, net, policyVars, bucketVars, robotVars, transportVars, agentVars, engineVars>>

\* What an action of one program leaves alone: the state of all the others.
PolicyFrame == <<program, codec, net, bucketVars, robotVars, transportVars, agentVars, engineVars>>
BucketFrame == <<program, codec, net, policyVars, robotVars, transportVars, agentVars, engineVars>>
RobotFrame  == <<program, codec, net, policyVars, transportVars, agentVars, engineVars>>
ArisFrame   == <<program, codec, net, policyVars, bucketVars, transportVars, agentVars, engineVars>>
AgentFrame  == <<program, codec, net, policyVars, bucketVars, robotVars, engineVars>>
EngineFrame == <<program, codec, net, policyVars, bucketVars, robotVars, agentVars>>

\* No network of participants is under study.
NoNet == [robot |-> <<>>, queue |-> <<>>]

\* No serialization is under study.
NoCodec == [variant |-> "none", msg |-> <<>>, padding |-> 0, buffer |-> <<>>, out |-> <<>>,
            pc |-> "idle"]

----------------------------------------------------------------------------
(* Bounds of the model and constants of the program *)

MaxCapability == 100            \* capability_index is a 0..100 score
TokenCap == 1000                \* std::min(..., 1000) and tokens_(1000)
RefillThresholdMs == 100        \* if (elapsed.count() > 100)
IntMax == 2147483647            \* largest value of a 32-bit int

Min(a, b) == IF a <= b THEN a ELSE b
Max(a, b) == IF a >= b THEN a ELSE b

----------------------------------------------------------------------------
(* Wire messages and inbound payloads                                       *)

\* enum class Protocol : int32_t { NONE = -1, DDS_RTPS = 0, ZENOH = 1, MQTT = 2 }
NONE == -1
DDS_RTPS == 0
ZENOH == 1
MQTT == 2

AgentMessageSize == 696         \* sizeof(AgentMessage) of protocol/aris.hpp
ArisMessageSize == 688          \* sizeof(AgentMessage) of protocol/message.hpp
RecvBufferSize == 1024          \* char buffer[1024]

Self == "X"                     \* uuid_ of the participant under study
Uuids == {Self, "P1", "P2"}     \* identities a payload may declare
LocalCapabilities == {20, 55, 75, 95}
MsgCapabilities == {20, 95}
\* msg.protocol is a uint32_t holding the enum's bits; the model writes it as
\* the 32-bit signed value with the same bits, so the cast back is bit-exact.
WireProtocols == {NONE, MQTT}

\* The announcements the model lets arrive: any of the above under the local
\* identity or the first peer's, and one announcement of a second peer.
AgentMessages ==
    [uuid : {Self, "P1"}, capability_index : MsgCapabilities, protocol : WireProtocols]
        \cup {[uuid |-> "P2", capability_index |-> 95, protocol |-> DDS_RTPS]}

NoMsg == [uuid |-> "", capability_index |-> 0, protocol |-> NONE]

\* What recvfrom may find: nothing (MSG_DONTWAIT), a datagram that holds an
\* AgentMessage, or one that is shorter or longer than that.
NoData == [size |-> 0, msg |-> NoMsg]
Payloads ==
    [size : {AgentMessageSize}, msg : AgentMessages]
        \cup [size : {10, 2000}, msg : {NoMsg}]
Inbound == Payloads \cup {NoData}

EmptyMap == [k \in {} |-> 0]
\* An insertion that drops what the table held.
PutAlone(m, k, v) == [x \in {k} |-> v]

\* std::map's  m[k] = v
Put(m, k, v) == [x \in (DOMAIN m) \cup {k} |-> IF x = k THEN v ELSE m[x]]

----------------------------------------------------------------------------
(* The state a program that is not running leaves the other programs' state in *)

PolicyIdle == cap = [p \in {"P", "Q"} |-> 0] /\ decision = [p \in {"P", "Q"} |-> "undecided"]

NoConsume == [count |-> 0, before |-> 0, ok |-> FALSE]

BucketIdle == tokens_ = 0 /\ elapsed = 0 /\ last_consume = NoConsume /\ last_refill = 0

RobotIdle ==
    /\ capability_index_ = 0 /\ chosen_protocol_ = NONE /\ known_robots_ = EmptyMap
    /\ running_ = FALSE /\ multicast_fd_ = "closed" /\ main_pc = "idle" /\ pc = "idle"
    /\ heard_network = FALSE /\ i = 0 /\ listen_duration = 0 /\ listen_elapsed = 0
    /\ last_rx = "none" /\ last_sent = NoMsg

TransportIdle ==
    /\ transport_running_ = FALSE /\ continuous_ = FALSE /\ timer_pc = "idle"
    /\ last_broadcast = 0 /\ wire = <<>>
    /\ uptime_ms = 0 /\ wall_at_start = 0 /\ steady_at_start = 0 /\ last_dispatch = "none"

AgentIdle ==
    /\ known_agents_ = EmptyMap /\ broadcast_message_ = <<>>
    /\ has_broadcast_message_ = FALSE /\ refreshes = 0

NoArgs == [message |-> <<>>, interval |-> 0]
NotObserved == [armed_at |-> -1, sent |-> <<>>, late_ms |-> 0]
NoHandlerLog == [registered |-> <<>>, invoked |-> <<>>]

EngineIdle ==
    /\ message_ = <<>> /\ interval_ = 0 /\ message_handler_ = "none"
    /\ all_discoveries_ = EmptyMap /\ owner_pc = "idle"
    /\ broadcast_args = NoArgs /\ observed = NotObserved /\ handler_log = NoHandlerLog
    /\ all_communication_ = EmptyMap /\ all_position_ = EmptyMap

----------------------------------------------------------------------------
(* Capability-gated sharing policy                                          *)

\* The gate with its last branch asking only the remote side.
should_share_remote_only(local, other_capability) ==
    IF local >= 90 \/ other_capability >= 90 THEN TRUE
    ELSE IF local >= 60 /\ other_capability >= 60 THEN TRUE
    ELSE IF local >= 50 /\ other_capability >= 50 THEN TRUE
    ELSE other_capability >= 25

\* The gate with its first branch asking for exactly 90 on the local side.
should_share_exact_90(local, other_capability) ==
    IF local = 90 \/ other_capability >= 90 THEN TRUE
    ELSE IF local >= 60 /\ other_capability >= 60 THEN TRUE
    ELSE IF local >= 50 /\ other_capability >= 50 THEN TRUE
    ELSE local >= 25 /\ other_capability >= 25

\* The gate with its last branch asking for more than 25.
should_share_above_25(local, other_capability) ==
    IF local >= 90 \/ other_capability >= 90 THEN TRUE
    ELSE IF local >= 60 /\ other_capability >= 60 THEN TRUE
    ELSE IF local >= 50 /\ other_capability >= 50 THEN TRUE
    ELSE local > 25 /\ other_capability > 25

\* ARISRobot::should_share_info_with, with capability_index_ passed as `local`.
\* Aris::should_share_info_with and Agent::should_share_info_with are the same text.
should_share_info_with(local, other_capability) ==
    IF local >= 90 \/ other_capability >= 90 THEN TRUE
    ELSE IF local >= 60 /\ other_capability >= 60 THEN TRUE
    ELSE IF local >= 50 /\ other_capability >= 50 THEN TRUE
    ELSE local >= 25 /\ other_capability >= 25

Verdict(b) == IF b THEN "accept" ELSE "reject"
Other(p) == IF p = "P" THEN "Q" ELSE "P"

\* Two participants P and Q, each with a capability score.
InitPolicy ==
    /\ program = "Policy" /\ codec = NoCodec /\ net = NoNet
    /\ cap \in [{"P", "Q"} -> 0..MaxCapability]
    /\ decision = [p \in {"P", "Q"} |-> "undecided"]
    /\ BucketIdle /\ RobotIdle /\ TransportIdle /\ AgentIdle /\ EngineIdle

\* Participant p receives an announcement of the other one and evaluates the gate.
Evaluate(p) ==
    /\ program = "Policy"
    /\ decision[p] = "undecided"
    /\ decision' = [decision EXCEPT ![p] = Verdict(should_share_info_with(cap[p], cap[Other(p)]))]
    /\ UNCHANGED <<cap, PolicyFrame>>

NextPolicy == \E p \in {"P", "Q"} : Evaluate(p)

SpecPolicy == InitPolicy /\ [][NextPolicy]_vars

----------------------------------------------------------------------------
(* Token bucket (ARIS only)                                                 *)

bandwidth_mbps == 10            \* int bandwidth_mbps = 10;
RefillDivisor == 10             \* ... / 10

\* int + int as a 32-bit build computes it: a sum above INT_MAX wraps around.
\* (b is never negative here.)
Add32(a, b) ==
    IF a > IntMax - b THEN (a - IntMax - 1) + (b - IntMax - 1) ELSE a + b

\* int new_tokens = (bandwidth_mbps * elapsed.count()) / 10;  the product is a
\* 64-bit value, so it does not overflow for any elapsed <= INT_MAX; the model
\* avoids forming it where TLC's own integers would overflow.
new_tokens(e) ==
    IF e <= IntMax \div bandwidth_mbps
    THEN (bandwidth_mbps * e) \div RefillDivisor
    ELSE e

\* The refill with a capacity below the cost of one steady announcement.
update_tokens_small_bucket(tokens, e) ==
    IF e > RefillThresholdMs
    THEN [tokens |-> Min(Add32(tokens, new_tokens(e)), 9), elapsed |-> 0,
          added |-> new_tokens(e)]
    ELSE [tokens |-> tokens, elapsed |-> e, added |-> 0]

\* The refill with the test  elapsed.count() >= 100.
update_tokens_from_threshold(tokens, e) ==
    IF e >= RefillThresholdMs
    THEN [tokens |-> Min(Add32(tokens, new_tokens(e)), TokenCap), elapsed |-> 0,
          added |-> new_tokens(e)]
    ELSE [tokens |-> tokens, elapsed |-> e, added |-> 0]

\* The refill without the std::min against the capacity.
update_tokens_uncapped(tokens, e) ==
    IF e > RefillThresholdMs
    THEN [tokens |-> Add32(tokens, new_tokens(e)), elapsed |-> 0, added |-> new_tokens(e)]
    ELSE [tokens |-> tokens, elapsed |-> e, added |-> 0]

\* ARISRobot::update_tokens: the tokens_ it leaves, the time since
\* last_token_update_ it leaves, and the new_tokens it computed.
update_tokens(tokens, e) ==
    IF e > RefillThresholdMs
    THEN [tokens |-> Min(Add32(tokens, new_tokens(e)), TokenCap), elapsed |-> 0,
          added |-> new_tokens(e)]
    ELSE [tokens |-> tokens, elapsed |-> e, added |-> 0]

\* ARISRobot::consume_tokens: its return value and the tokens_ it leaves.
consume_ok(tokens, count) == tokens >= count

\* The consumption that takes the tokens whether or not there are enough.
consume_tokens_unchecked(tokens, count) == tokens - count

consume_tokens(tokens, count) ==
    IF consume_ok(tokens, count) THEN tokens - count ELSE tokens

\* How long the thread may stay away between two looks at the clock.
PassChoices == {40, 100, 101, 260}
\* The costs the loop asks for (30 while electing, 10 in steady state) and a large one.
ElectCost == 30
SteadyCost == 10
ConsumeChoices == {SteadyCost, ElectCost, 400}

\* ARISRobot::ARISRobot: tokens_(1000), last_token_update_ = now
InitBucket ==
    /\ program = "Bucket" /\ codec = NoCodec /\ net = NoNet
    /\ tokens_ = TokenCap
    /\ elapsed = 0
    /\ last_consume = NoConsume
    /\ last_refill = 0
    /\ PolicyIdle /\ RobotIdle /\ TransportIdle /\ AgentIdle /\ EngineIdle

TimePasses(d) ==
    /\ program = "Bucket"
    /\ elapsed <= RefillThresholdMs
    /\ elapsed' = elapsed + d
    /\ last_consume' = NoConsume
    /\ last_refill' = 0
    /\ UNCHANGED <<tokens_, BucketFrame>>

UpdateTokens ==
    /\ program = "Bucket"
    /\ tokens_' = update_tokens(tokens_, elapsed).tokens
    /\ elapsed' = update_tokens(tokens_, elapsed).elapsed
    /\ last_refill' = update_tokens(tokens_, elapsed).added
    /\ last_consume' = NoConsume
    /\ UNCHANGED BucketFrame

ConsumeTokens(count) ==
    /\ program = "Bucket"
    /\ tokens_' = consume_tokens(tokens_, count)
    /\ last_consume' = [count |-> count, before |-> tokens_, ok |-> consume_ok(tokens_, count)]
    /\ last_refill' = 0
    /\ UNCHANGED <<elapsed, BucketFrame>>

NextBucket ==
    \/ \E d \in PassChoices : TimePasses(d)
    \/ UpdateTokens
    \/ \E count \in ConsumeChoices : ConsumeTokens(count)

SpecBucket == InitBucket /\ [][NextBucket]_vars

\* A first tick long after construction, or a thread that was kept from
\* running for weeks: steady_clock has advanced by almost INT_MAX ms (24.8
\* days) when update_tokens looks at it next.
LongPauses == {IntMax - 600}

LongPause(d) ==
    /\ program = "Bucket"
    /\ elapsed <= RefillThresholdMs
    /\ elapsed' = elapsed + d
    /\ last_consume' = NoConsume
    /\ last_refill' = 0
    /\ UNCHANGED <<tokens_, BucketFrame>>

\* The bucket with such pauses, followed until its count has left the range
\* of a token count.
NextLongPause ==
    \/ tokens_ >= 0 /\ NextBucket
    \/ \E d \in LongPauses : LongPause(d)

SpecLongPause == InitBucket /\ [][NextLongPause]_vars

----------------------------------------------------------------------------
(* ARISRobot (protocol/aris.hpp)                                            *)

ListenSecondsMin == 5           \* std::uniform_int_distribution<> dis(5, 15)
ListenSecondsMax == 15
ListenSeconds == ListenSecondsMin..ListenSecondsMax
\* The draws the model follows: the two ends of the distribution's range.
ListenDraws == {ListenSecondsMin, ListenSecondsMax}
ElectBurst == 10                \* for (int i = 0; i < 10 && running_; i++)
SteadyBurst == 20               \* for (int i = 0; i < 20 && running_; i++)
SleepMs == 100                  \* std::this_thread::sleep_for(std::chrono::milliseconds(100))
SleepChoices == {SleepMs}       \* the model lets every sleep return on time

\* ARISRobot::select_protocol with the ZENOH threshold at 50.
select_protocol_zenoh_from_50(capability) ==
    IF capability >= 90 THEN DDS_RTPS
    ELSE IF capability >= 50 THEN ZENOH
    ELSE MQTT

\* ARISRobot::select_protocol
select_protocol(capability) ==
    IF capability >= 90 THEN DDS_RTPS
    ELSE IF capability >= 60 THEN ZENOH
    ELSE MQTT

\* ssize_t received = recvfrom(multicast_fd_, buffer, sizeof(buffer), MSG_DONTWAIT, ...)
\* -1 on a closed descriptor or when nothing is queued; a longer datagram is cut.
recvfrom(fd, in) ==
    IF fd = "closed" \/ in = NoData THEN -1 ELSE Min(in.size, RecvBufferSize)

\* ARISRobot::receive_message taking the protocol of every announcement it
\* reads, whether it has one already or not.
receive_message_always_adopting(fd, in, uuid, capability, chosen, known) ==
    IF recvfrom(fd, in) # AgentMessageSize
    THEN [ret |-> FALSE, chosen |-> chosen, known |-> known,
          path |-> IF recvfrom(fd, in) = -1 THEN "nodata" ELSE "badsize"]
    ELSE IF in.msg.uuid = uuid
    THEN [ret |-> FALSE, chosen |-> chosen, known |-> known, path |-> "self"]
    ELSE [ret |-> TRUE,
          chosen |-> in.msg.protocol,
          known |-> IF should_share_info_with(capability, in.msg.capability_index)
                    THEN Put(known, in.msg.uuid, in.msg) ELSE known,
          path |-> IF should_share_info_with(capability, in.msg.capability_index)
                   THEN "accepted" ELSE "rejected"]

\* ARISRobot::receive_message: its return value, the fields it leaves and the
\* path it took.
receive_message(fd, in, uuid, capability, chosen, known) ==
    IF recvfrom(fd, in) # AgentMessageSize
    THEN [ret |-> FALSE, chosen |-> chosen, known |-> known,
          path |-> IF recvfrom(fd, in) = -1 THEN "nodata" ELSE "badsize"]
    ELSE IF in.msg.uuid = uuid
    THEN [ret |-> FALSE, chosen |-> chosen, known |-> known, path |-> "self"]
    ELSE [ret |-> TRUE,
          chosen |-> IF chosen = NONE THEN in.msg.protocol ELSE chosen,
          known |-> IF should_share_info_with(capability, in.msg.capability_index)
                    THEN Put(known, in.msg.uuid, in.msg) ELSE known,
          path |-> IF should_share_info_with(capability, in.msg.capability_index)
                   THEN "accepted" ELSE "rejected"]

\* ARISRobot::send_agent_message: the datagram handed to sendto, which fails on
\* a closed descriptor.
send_agent_message(fd, uuid, capability, chosen) ==
    IF fd = "closed" THEN NoMsg
    ELSE [uuid |-> uuid, capability_index |-> capability, protocol |-> chosen]

\* ARISRobot::ARISRobot
InitRobot ==
    /\ program = "ARISRobot" /\ codec = NoCodec /\ net = NoNet
    /\ capability_index_ \in LocalCapabilities
    /\ chosen_protocol_ = NONE
    /\ known_robots_ = EmptyMap
    /\ running_ = FALSE
    /\ multicast_fd_ = "closed"
    /\ tokens_ = TokenCap /\ elapsed = 0 /\ last_consume = NoConsume /\ last_refill = 0
    /\ main_pc = "constructed" /\ pc = "not_started"
    /\ heard_network = FALSE /\ i = 0 /\ listen_duration = 0 /\ listen_elapsed = 0
    /\ last_rx = "none" /\ last_sent = NoMsg
    /\ PolicyIdle /\ TransportIdle /\ AgentIdle /\ EngineIdle

\* ARISRobot::start, all set-up calls succeeding
RobotStart ==
    /\ program = "ARISRobot" /\ main_pc = "constructed"
    /\ multicast_fd_' = "open"
    /\ running_' = TRUE
    /\ main_pc' = "started" /\ pc' = "entry"
    /\ UNCHANGED <<capability_index_, chosen_protocol_, known_robots_, heard_network, i,
                   listen_duration, listen_elapsed, last_rx, last_sent, bucketVars, RobotFrame>>

\* ARISRobot::start returning false (interface, socket, bind or group join failed)
RobotStartFails ==
    /\ program = "ARISRobot" /\ main_pc = "constructed"
    /\ main_pc' = "start_failed"
    /\ UNCHANGED <<capability_index_, chosen_protocol_, known_robots_, running_, multicast_fd_,
                   pc, heard_network, i, listen_duration, listen_elapsed, last_rx, last_sent,
                   bucketVars, RobotFrame>>

\* ARISRobot::stop, statement by statement
RobotStopFlag ==
    /\ program = "ARISRobot" /\ main_pc = "started"
    /\ running_' = FALSE
    /\ main_pc' = "stop_close"
    /\ UNCHANGED <<capability_index_, chosen_protocol_, known_robots_, multicast_fd_, pc,
                   heard_network, i, listen_duration, listen_elapsed, last_rx, last_sent,
                   bucketVars, RobotFrame>>

RobotStopClose ==
    /\ program = "ARISRobot" /\ main_pc = "stop_close"
    /\ multicast_fd_' = "closed"
    /\ main_pc' = "stop_join"
    /\ UNCHANGED <<capability_index_, chosen_protocol_, known_robots_, running_, pc,
                   heard_network, i, listen_duration, listen_elapsed, last_rx, last_sent,
                   bucketVars, RobotFrame>>

RobotStopJoin ==
    /\ program = "ARISRobot" /\ main_pc = "stop_join"
    /\ pc = "done"
    /\ main_pc' = "stopped"
    /\ UNCHANGED <<capability_index_, chosen_protocol_, known_robots_, running_, multicast_fd_,
                   pc, heard_network, i, listen_duration, listen_elapsed, last_rx, last_sent,
                   bucketVars, RobotFrame>>

\* ---- ARISRobot::discovery_loop, one action per loop test and per loop body

mainVars == <<main_pc, running_, multicast_fd_, capability_index_>>

\* An entry into the loop that announces the participant before it listens.
LoopEntryAnnouncing ==
    /\ program = "ARISRobot" /\ pc = "entry"
    /\ listen_duration' \in ListenDraws
    /\ listen_elapsed' = 0
    /\ heard_network' = FALSE
    /\ last_sent' = send_agent_message(multicast_fd_, Self, capability_index_, chosen_protocol_)
    /\ pc' = "listen"
    /\ UNCHANGED <<mainVars, chosen_protocol_, known_robots_, i, last_rx, bucketVars, RobotFrame>>

\* std::uniform_int_distribution<> dis(5, 15); listen_duration = seconds(dis(gen));
LoopEntry ==
    /\ program = "ARISRobot" /\ pc = "entry"
    /\ listen_duration' \in ListenDraws
    /\ listen_elapsed' = 0
    /\ heard_network' = FALSE
    /\ pc' = "listen"
    /\ UNCHANGED <<mainVars, chosen_protocol_, known_robots_, i, last_rx, last_sent, bucketVars, RobotFrame>>

\* while (running_ && (now - listen_start) < listen_duration)
ListenTest ==
    /\ program = "ARISRobot" /\ pc = "listen"
    /\ pc' = IF running_ /\ listen_elapsed < listen_duration * 1000
             THEN "listen_body" ELSE "after_listen"
    /\ UNCHANGED <<mainVars, chosen_protocol_, known_robots_, heard_network, i, listen_duration,
                   listen_elapsed, last_rx, last_sent, bucketVars, RobotFrame>>

\* if (receive_message()) { heard_network = true; break; } update_tokens(); sleep_for(100ms);
ListenBody(in, d) ==
    /\ program = "ARISRobot" /\ pc = "listen_body"
    /\ LET r == receive_message(multicast_fd_, in, Self, capability_index_, chosen_protocol_,
                                known_robots_)
           u == update_tokens(tokens_, elapsed)
       IN /\ chosen_protocol_' = r.chosen
          /\ known_robots_' = r.known
          /\ last_rx' = r.path
          /\ IF r.ret
             THEN /\ heard_network' = TRUE
                  /\ pc' = "after_listen"
                  /\ last_refill' = 0
                  /\ UNCHANGED <<tokens_, elapsed, listen_elapsed>>
             ELSE /\ tokens_' = u.tokens
                  /\ elapsed' = u.elapsed + d
                  /\ last_refill' = u.added
                  /\ listen_elapsed' = listen_elapsed + d
                  /\ pc' = "listen"
                  /\ UNCHANGED heard_network
    /\ last_consume' = NoConsume
    /\ UNCHANGED <<mainVars, i, listen_duration, last_sent, RobotFrame>>

\* The step after the listen loop without the test of heard_network.
AfterListenAlwaysElecting ==
    /\ program = "ARISRobot" /\ pc = "after_listen"
    /\ IF ~running_
       THEN pc' = "done" /\ UNCHANGED chosen_protocol_
       ELSE pc' = "elect" /\ chosen_protocol_' = select_protocol(capability_index_)
    /\ listen_duration' = 0 /\ listen_elapsed' = 0
    /\ UNCHANGED <<mainVars, known_robots_, heard_network, i, last_rx, last_sent, bucketVars, RobotFrame>>

\* if (!running_) return;  if (!heard_network) { chosen_protocol_ = select_protocol(); ... }
AfterListen ==
    /\ program = "ARISRobot" /\ pc = "after_listen"
    /\ IF ~running_
       THEN pc' = "done" /\ UNCHANGED chosen_protocol_
       ELSE IF ~heard_network
       THEN pc' = "elect" /\ chosen_protocol_' = select_protocol(capability_index_)
       ELSE pc' = "steady" /\ UNCHANGED chosen_protocol_
    /\ listen_duration' = 0 /\ listen_elapsed' = 0
    /\ UNCHANGED <<mainVars, known_robots_, heard_network, i, last_rx, last_sent, bucketVars, RobotFrame>>

\* The election loop without the test of the peer table:  while (running_)
ElectTestIgnoringPeers ==
    /\ program = "ARISRobot" /\ pc = "elect"
    /\ pc' = IF running_ THEN "elect_body" ELSE "steady"
    /\ UNCHANGED <<mainVars, chosen_protocol_, known_robots_, heard_network, i, listen_duration,
                   listen_elapsed, last_rx, last_sent, bucketVars, RobotFrame>>

\* while (running_ && known_robots_.empty())
ElectTest ==
    /\ program = "ARISRobot" /\ pc = "elect"
    /\ pc' = IF running_ /\ known_robots_ = EmptyMap THEN "elect_body" ELSE "steady"
    /\ UNCHANGED <<mainVars, chosen_protocol_, known_robots_, heard_network, i, listen_duration,
                   listen_elapsed, last_rx, last_sent, bucketVars, RobotFrame>>

\* An announce step that sends without asking the bucket.
AnnounceUngated(at, cost, next) ==
    /\ program = "ARISRobot" /\ pc = at
    /\ tokens_' = tokens_
    /\ last_consume' = NoConsume
    /\ last_sent' = send_agent_message(multicast_fd_, Self, capability_index_, chosen_protocol_)
    /\ last_refill' = 0
    /\ i' = 0
    /\ pc' = next
    /\ UNCHANGED <<mainVars, chosen_protocol_, known_robots_, heard_network, listen_duration,
                   listen_elapsed, last_rx, elapsed, RobotFrame>>

\* if (consume_tokens(cost)) { send_agent_message(); }   then the burst starts at i = 0
Announce(at, cost, next) ==
    /\ program = "ARISRobot" /\ pc = at
    /\ tokens_' = consume_tokens(tokens_, cost)
    /\ last_consume' = [count |-> cost, before |-> tokens_, ok |-> consume_ok(tokens_, cost)]
    /\ last_sent' = IF consume_ok(tokens_, cost)
                    THEN send_agent_message(multicast_fd_, Self, capability_index_,
                                            chosen_protocol_)
                    ELSE NoMsg
    /\ last_refill' = 0
    /\ i' = 0
    /\ pc' = next
    /\ UNCHANGED <<mainVars, chosen_protocol_, known_robots_, heard_network, listen_duration,
                   listen_elapsed, last_rx, elapsed, RobotFrame>>

ElectAnnounce == Announce("elect_body", ElectCost, "elect_burst")
SteadyAnnounce == Announce("steady_body", SteadyCost, "steady_burst")

\* The burst loop testing its counter only:  for (int i = 0; i < n; i++)
BurstTestIgnoringFlag(at, n, body, out) ==
    /\ program = "ARISRobot" /\ pc = at
    /\ IF i < n
       THEN pc' = body /\ UNCHANGED i
       ELSE pc' = out /\ i' = 0
    /\ UNCHANGED <<mainVars, chosen_protocol_, known_robots_, heard_network, listen_duration,
                   listen_elapsed, last_rx, last_sent, bucketVars, RobotFrame>>

\* for (int i = 0; i < n && running_; i++)
BurstTest(at, n, body, out) ==
    /\ program = "ARISRobot" /\ pc = at
    /\ IF i < n /\ running_
       THEN pc' = body /\ UNCHANGED i
       ELSE pc' = out /\ i' = 0
    /\ UNCHANGED <<mainVars, chosen_protocol_, known_robots_, heard_network, listen_duration,
                   listen_elapsed, last_rx, last_sent, bucketVars, RobotFrame>>

\* receive_message(); update_tokens(); sleep_for(100ms);  i++
BurstBody(at, back, in, d) ==
    /\ program = "ARISRobot" /\ pc = at
    /\ LET r == receive_message(multicast_fd_, in, Self, capability_index_, chosen_protocol_,
                                known_robots_)
           u == update_tokens(tokens_, elapsed)
       IN /\ chosen_protocol_' = r.chosen
          /\ known_robots_' = r.known
          /\ last_rx' = r.path
          /\ tokens_' = u.tokens
          /\ elapsed' = u.elapsed + d
          /\ last_refill' = u.added
    /\ last_consume' = NoConsume
    /\ last_sent' = NoMsg
    /\ i' = i + 1
    /\ pc' = back
    /\ UNCHANGED <<mainVars, heard_network, listen_duration, listen_elapsed, RobotFrame>>

ElectBurstTest == BurstTest("elect_burst", ElectBurst, "elect_burst_body", "elect")
ElectBurstBody(in, d) == BurstBody("elect_burst_body", "elect_burst", in, d)

\* A steady loop that falls back to electing when it knows no peer.
SteadyTestReelecting ==
    /\ program = "ARISRobot" /\ pc = "steady"
    /\ pc' = IF ~running_ THEN "done"
             ELSE IF known_robots_ = EmptyMap THEN "elect" ELSE "steady_body"
    /\ UNCHANGED <<mainVars, chosen_protocol_, known_robots_, heard_network, i, listen_duration,
                   listen_elapsed, last_rx, last_sent, bucketVars, RobotFrame>>

\* while (running_)
SteadyTest ==
    /\ program = "ARISRobot" /\ pc = "steady"
    /\ pc' = IF running_ THEN "steady_body" ELSE "done"
    /\ UNCHANGED <<mainVars, chosen_protocol_, known_robots_, heard_network, i, listen_duration,
                   listen_elapsed, last_rx, last_sent, bucketVars, RobotFrame>>

SteadyBurstTest == BurstTest("steady_burst", SteadyBurst, "steady_burst_body", "steady")
SteadyBurstBody(in, d) == BurstBody("steady_burst_body", "steady_burst", in, d)

NextRobot ==
    \/ RobotStart
    \/ RobotStartFails
    \/ RobotStopFlag
    \/ RobotStopClose
    \/ RobotStopJoin
    \/ LoopEntry
    \/ ListenTest
    \/ \E in \in Inbound, d \in SleepChoices : ListenBody(in, d)
    \/ AfterListen
    \/ ElectTest
    \/ ElectAnnounce
    \/ ElectBurstTest
    \/ \E in \in Inbound, d \in SleepChoices : ElectBurstBody(in, d)
    \/ SteadyTest
    \/ SteadyAnnounce
    \/ SteadyBurstTest
    \/ \E in \in Inbound, d \in SleepChoices : SteadyBurstBody(in, d)

SpecRobot == InitRobot /\ [][NextRobot]_vars

----------------------------------------------------------------------------
(* Aris (protocol/message.hpp), fed by the receive thread of LanInterface     *)

OwnAddress == "fe80::1"         \* LanInterface::address_ of the participant under study
PeerAddress == "fe80::2"
Addresses == {OwnAddress, PeerAddress}

ArisCapabilities == {20, 75}
NoArisMsg == [uuid |-> "", capability_index |-> 0]
ArisMessages == [uuid : {Self, "P1"}, capability_index : MsgCapabilities]
ArisPayloads ==
    [size : {ArisMessageSize}, msg : ArisMessages]
        \cup [size : {10, AgentMessageSize}, msg : {NoArisMsg}]

\* Aris::handle_incoming_message without the test of the payload's length.
aris_handle_any_size(in, capability, known) ==
    IF should_share_info_with(capability, in.msg.capability_index)
    THEN [known |-> Put(known, in.msg.uuid, in.msg), path |-> "accepted"]
    ELSE [known |-> known, path |-> "rejected"]

\* Aris::handle_incoming_message storing every announcement of the right size,
\* whatever the sharing policy says of it.
aris_handle_ungated(in, capability, known) ==
    IF in.size # ArisMessageSize
    THEN [known |-> known, path |-> "badsize"]
    ELSE [known |-> Put(known, in.msg.uuid, in.msg),
          path |-> IF should_share_info_with(capability, in.msg.capability_index)
                   THEN "accepted" ELSE "rejected"]

\* Aris::handle_incoming_message: the table it leaves and the path it took.
aris_handle_incoming_message(in, capability, known) ==
    IF in.size # ArisMessageSize
    THEN [known |-> known, path |-> "badsize"]
    ELSE IF should_share_info_with(capability, in.msg.capability_index)
    THEN [known |-> Put(known, in.msg.uuid, in.msg), path |-> "accepted"]
    ELSE [known |-> known, path |-> "rejected"]

\* Aris::Aris
InitAris ==
    /\ program = "Aris" /\ codec = NoCodec /\ net = NoNet
    /\ capability_index_ \in ArisCapabilities
    /\ chosen_protocol_ = NONE
    /\ known_robots_ = EmptyMap
    /\ running_ = FALSE
    /\ multicast_fd_ = "closed"
    /\ main_pc = "constructed" /\ pc = "not_started"
    /\ heard_network = FALSE /\ i = 0 /\ listen_duration = 0 /\ listen_elapsed = 0
    /\ last_rx = "none" /\ last_sent = NoArisMsg
    /\ PolicyIdle /\ BucketIdle /\ TransportIdle /\ AgentIdle /\ EngineIdle

arisMain == <<main_pc, running_, capability_index_, chosen_protocol_, multicast_fd_,
              heard_network>>

\* Aris::start registering the callback without storing the self entry.
ArisStartRegisterNoSelf ==
    /\ program = "Aris" /\ main_pc = "constructed"
    /\ main_pc' = "registered"
    /\ UNCHANGED <<known_robots_, running_, capability_index_, chosen_protocol_, multicast_fd_,
                   heard_network, pc, i, listen_duration, listen_elapsed, last_rx, last_sent,
                   ArisFrame>>

\* Aris::start, first half: known_robots_[uuid_] = self_msg; set_message_callback(...)
ArisStartRegister ==
    /\ program = "Aris" /\ main_pc = "constructed"
    /\ known_robots_' = Put(known_robots_, Self,
                            [uuid |-> Self, capability_index |-> capability_index_])
    /\ main_pc' = "registered"
    /\ UNCHANGED <<running_, capability_index_, chosen_protocol_, multicast_fd_, heard_network,
                   pc, i, listen_duration, listen_elapsed, last_rx, last_sent, ArisFrame>>

\* Aris::start, second half: running_ = true; discovery_thread_ = std::thread(...)
ArisStartThread ==
    /\ program = "Aris" /\ main_pc = "registered"
    /\ running_' = TRUE
    /\ main_pc' = "started" /\ pc' = "entry"
    /\ UNCHANGED <<capability_index_, chosen_protocol_, multicast_fd_, heard_network,
                   known_robots_, i, listen_duration, listen_elapsed, last_rx, last_sent,
                   ArisFrame>>

\* Aris::stop: running_ = false
ArisStopFlag ==
    /\ program = "Aris" /\ main_pc = "started"
    /\ running_' = FALSE
    /\ main_pc' = "stop_join"
    /\ UNCHANGED <<capability_index_, chosen_protocol_, multicast_fd_, heard_network,
                   known_robots_, pc, i, listen_duration, listen_elapsed, last_rx, last_sent,
                   ArisFrame>>

\* Aris::stop: discovery_thread_.join()
ArisStopJoin ==
    /\ program = "Aris" /\ main_pc = "stop_join"
    /\ pc = "done"
    /\ main_pc' = "stopped"
    /\ UNCHANGED <<running_, capability_index_, chosen_protocol_, multicast_fd_, heard_network,
                   known_robots_, pc, i, listen_duration, listen_elapsed, last_rx, last_sent,
                   ArisFrame>>

\* LanInterface::receive_loop hands a datagram to the registered callback unless
\* it comes from the interface's own address; the callback is
\* Aris::handle_incoming_message.
ArisHandleIncoming(in, from) ==
    /\ program = "Aris" /\ main_pc \in {"registered", "started", "stop_join", "stopped"}
    /\ from # OwnAddress
    /\ known_robots_' = aris_handle_incoming_message(in, capability_index_, known_robots_).known
    /\ last_rx' = aris_handle_incoming_message(in, capability_index_, known_robots_).path
    /\ UNCHANGED <<arisMain, pc, i, listen_duration, listen_elapsed, last_sent, ArisFrame>>

\* Aris::~Aris has called stop(); now the members are destroyed.  The callback
\* registered in the interface still holds `this`.
ArisDestroy ==
    /\ program = "Aris" /\ main_pc = "stopped"
    /\ main_pc' = "destroyed"
    /\ UNCHANGED <<running_, capability_index_, chosen_protocol_, multicast_fd_, heard_network,
                   known_robots_, pc, i, listen_duration, listen_elapsed, last_rx, last_sent,
                   ArisFrame>>

\* What a call through the dangling `this` may do: find the memory as the
\* object left it, change nothing the program can see, or end the process.
DanglingOutcomes == {"as_alive", "no_effect", "crash"}

\* LanInterface::receive_loop invokes the callback after the participant was
\* destroyed and before the interface itself is stopped.
ArisCallbackOnDestroyed(in, from, outcome) ==
    /\ program = "Aris" /\ main_pc = "destroyed"
    /\ from # OwnAddress
    /\ known_robots_' =
           IF outcome = "as_alive"
           THEN aris_handle_incoming_message(in, capability_index_, known_robots_).known
           ELSE known_robots_
    /\ last_rx' = "dangling"
    /\ main_pc' = IF outcome = "crash" THEN "crashed" ELSE main_pc
    /\ UNCHANGED <<running_, capability_index_, chosen_protocol_, multicast_fd_, heard_network,
                   pc, i, listen_duration, listen_elapsed, last_sent, ArisFrame>>

\* LanInterface::~LanInterface: stop() joins the receive thread.
ArisLanStop ==
    /\ program = "Aris" /\ main_pc = "destroyed"
    /\ main_pc' = "lan_stopped"
    /\ UNCHANGED <<running_, capability_index_, chosen_protocol_, multicast_fd_, heard_network,
                   known_robots_, pc, i, listen_duration, listen_elapsed, last_rx, last_sent,
                   ArisFrame>>

\* ---- Aris::discovery_loop

ArisLoopEntry ==
    /\ program = "Aris" /\ pc = "entry"
    /\ listen_duration' \in ListenDraws
    /\ listen_elapsed' = 0
    /\ pc' = "listen"
    /\ UNCHANGED <<arisMain, known_robots_, i, last_rx, last_sent, ArisFrame>>

\* while (running_ && (now - listen_start) < listen_duration)
ArisListenTest ==
    /\ program = "Aris" /\ pc = "listen"
    /\ pc' = IF running_ /\ listen_elapsed < listen_duration * 1000
             THEN "listen_sleep" ELSE "after_listen"
    /\ UNCHANGED <<arisMain, known_robots_, i, listen_duration, listen_elapsed, last_rx,
                   last_sent, ArisFrame>>

ArisListenSleep(d) ==
    /\ program = "Aris" /\ pc = "listen_sleep"
    /\ listen_elapsed' = listen_elapsed + d
    /\ pc' = "listen"
    /\ UNCHANGED <<arisMain, known_robots_, i, listen_duration, last_rx, last_sent, ArisFrame>>

\* if (!running_) return;
ArisAfterListen ==
    /\ program = "Aris" /\ pc = "after_listen"
    /\ pc' = IF ~running_ THEN "done" ELSE "announce"
    /\ listen_duration' = 0 /\ listen_elapsed' = 0
    /\ UNCHANGED <<arisMain, known_robots_, i, last_rx, last_sent, ArisFrame>>

\* while (running_)
ArisAnnounceTest ==
    /\ program = "Aris" /\ pc = "announce"
    /\ pc' = IF running_ THEN "announce_body" ELSE "done"
    /\ UNCHANGED <<arisMain, known_robots_, i, listen_duration, listen_elapsed, last_rx,
                   last_sent, ArisFrame>>

\* Aris::send_agent_message
ArisAnnounce ==
    /\ program = "Aris" /\ pc = "announce_body"
    /\ last_sent' = [uuid |-> Self, capability_index |-> capability_index_]
    /\ i' = 0
    /\ pc' = "announce_burst"
    /\ UNCHANGED <<arisMain, known_robots_, listen_duration, listen_elapsed, last_rx, ArisFrame>>

\* for (int i = 0; i < 20 && running_; i++)
ArisBurstTest ==
    /\ program = "Aris" /\ pc = "announce_burst"
    /\ IF i < SteadyBurst /\ running_
       THEN pc' = "announce_sleep" /\ UNCHANGED i
       ELSE pc' = "announce" /\ i' = 0
    /\ UNCHANGED <<arisMain, known_robots_, listen_duration, listen_elapsed, last_rx, last_sent,
                   ArisFrame>>

ArisBurstSleep ==
    /\ program = "Aris" /\ pc = "announce_sleep"
    /\ i' = i + 1
    /\ last_sent' = NoArisMsg
    /\ pc' = "announce_burst"
    /\ UNCHANGED <<arisMain, known_robots_, listen_duration, listen_elapsed, last_rx, ArisFrame>>

NextAris ==
    \/ ArisStartRegister
    \/ ArisStartThread
    \/ ArisStopFlag
    \/ ArisStopJoin
    \/ \E in \in ArisPayloads, from \in Addresses : ArisHandleIncoming(in, from)
    \/ ArisDestroy
    \/ \E in \in ArisPayloads, from \in Addresses, outcome \in DanglingOutcomes :
           ArisCallbackOnDestroyed(in, from, outcome)
    \/ ArisLanStop
    \/ ArisLoopEntry
    \/ ArisListenTest
    \/ \E d \in SleepChoices : ArisListenSleep(d)
    \/ ArisAfterListen
    \/ ArisAnnounceTest
    \/ ArisAnnounce
    \/ ArisBurstTest
    \/ ArisBurstSleep

SpecAris == InitAris /\ [][NextAris]_vars

----------------------------------------------------------------------------
(* Clocks, Discovery messages and the broadcast timer of Transport<Discovery> *)

NanosPerMilli == 1000000        \* steady_clock counts nanoseconds
BroadcastIntervalMs == 1000     \* std::chrono::milliseconds(1000)
MaxUptimeMs == 1200             \* how long the model follows a program

\* What the two clocks may read when the program starts.  They are unrelated:
\* system_clock counts from 1970, steady_clock from an arbitrary point (boot).
WallClockChoices == {1000, 2000000000}
SteadyClockChoices == {500}

\* duration_cast<milliseconds>(system_clock::now().time_since_epoch()).count()
system_clock_ms == wall_at_start + uptime_ms
\* steady_clock::now(), in ms, and its time_since_epoch().count()
steady_clock_ms == steady_at_start + uptime_ms
steady_clock_count == steady_clock_ms * NanosPerMilli

DiscoverySize == 104            \* sizeof(Discovery) with the ipv6 field
PackedDiscoverySize == 53       \* sizeof(Discovery), packed, without it
AgentCapability == 75           \* int32_t capability = 75

\* The Discovery messages peers may send: each declares an address and the
\* time its sender joined.
PeerTimestamp == 900
PeerJoinTimes == {400, 800}
NoDiscovery == [ipv6 |-> "", timestamp |-> 0, join_time |-> 0, capability_index |-> 0]
DiscoveryMessages ==
    [ipv6 : Addresses, timestamp : {PeerTimestamp}, join_time : PeerJoinTimes,
     capability_index : {95}]
DiscoveryPayloads ==
    [size : {DiscoverySize}, msg : DiscoveryMessages]
        \cup [size : {10}, msg : {NoDiscovery}]

\* Discovery::set_timestamp
set_timestamp(msg, timestamp) == [msg EXCEPT !.timestamp = timestamp]

\* The body of message_loop's while with  last_broadcast += interval_  in place
\* of  last_broadcast = now;
message_loop_body_fixed_phase(enabled, message, last, interval, now_ms, now_count) ==
    IF ~enabled
    THEN [message |-> message, sent |-> <<>>, last |-> last]
    ELSE IF now_ms - last >= interval
    THEN [message |-> set_timestamp(message, now_count),
          sent |-> <<set_timestamp(message, now_count)>>, last |-> last + interval]
    ELSE [message |-> set_timestamp(message, now_count), sent |-> <<>>, last |-> last]

\* The body of message_loop's while without  last_broadcast = now;
message_loop_body_keeps_last(enabled, message, last, interval, now_ms, now_count) ==
    IF ~enabled
    THEN [message |-> message, sent |-> <<>>, last |-> last]
    ELSE IF now_ms - last >= interval
    THEN [message |-> set_timestamp(message, now_count),
          sent |-> <<set_timestamp(message, now_count)>>, last |-> last]
    ELSE [message |-> set_timestamp(message, now_count), sent |-> <<>>, last |-> last]

\* The body of message_loop's while: the broadcast message it leaves, the
\* message it sends (none: <<>>) and the last_broadcast it leaves.
message_loop_body(enabled, message, last, interval, now_ms, now_count) ==
    IF ~enabled
    THEN [message |-> message, sent |-> <<>>, last |-> last]
    ELSE IF now_ms - last >= interval
    THEN [message |-> set_timestamp(message, now_count),
          sent |-> <<set_timestamp(message, now_count)>>, last |-> now_ms]
    ELSE [message |-> set_timestamp(message, now_count), sent |-> <<>>, last |-> last]

----------------------------------------------------------------------------
(* Agent (agents.hpp, second revision) on Transport<Discovery>               *)

MaxRefreshes == 2               \* how many send_discovery calls the model follows

\* Transport::handle_incoming_message without the test of the payload's length.
transport_dispatch_any_size(size, expected, handler) ==
    IF handler = "none" THEN "nohandler" ELSE "handled"

\* A dispatch that takes any payload long enough to hold the engine's type.
transport_dispatch_at_least(size, expected, handler) ==
    IF size < expected THEN "badsize"
    ELSE IF handler = "none" THEN "nohandler"
    ELSE "handled"

\* Transport::handle_incoming_message: whether the payload reaches the handler.
transport_dispatch(size, expected, handler) ==
    IF size # expected THEN "badsize"
    ELSE IF handler = "none" THEN "nohandler"
    ELSE "handled"

\* Agent::handle_discovery_message: the table it leaves.
handle_discovery_message(known, msg) == Put(known, msg.ipv6, msg)

\* Agent::send_discovery building its message from no table entry at all.
send_discovery_restamp_join(known, address, now_time, capability) ==
    [ipv6 |-> address, timestamp |-> now_time, join_time |-> now_time,
     capability_index |-> capability]

\* Agent::send_discovery: the message it hands to set_broadcast_message.
send_discovery(known, address, now_time, capability) ==
    [ipv6 |-> address, timestamp |-> now_time,
     join_time |-> IF address \in DOMAIN known THEN known[address].join_time ELSE now_time,
     capability_index |-> capability]

\* Agent::Agent has run: handler set, self entry stored, broadcast message set,
\* transport started.
InitAgent ==
    /\ program = "Agent" /\ codec = NoCodec /\ net = NoNet
    /\ wall_at_start \in WallClockChoices
    /\ steady_at_start \in SteadyClockChoices
    /\ uptime_ms = 0
    /\ known_agents_ = Put(EmptyMap, OwnAddress,
                           [ipv6 |-> OwnAddress, timestamp |-> wall_at_start,
                            join_time |-> wall_at_start, capability_index |-> AgentCapability])
    /\ broadcast_message_ = <<[ipv6 |-> OwnAddress, timestamp |-> wall_at_start,
                               join_time |-> wall_at_start,
                               capability_index |-> AgentCapability]>>
    /\ has_broadcast_message_ = TRUE
    /\ refreshes = 0
    /\ transport_running_ = TRUE /\ continuous_ = TRUE /\ timer_pc = "entry"
    /\ last_broadcast = 0 /\ wire = <<>>
    /\ last_dispatch = "none"
    /\ PolicyIdle /\ BucketIdle /\ RobotIdle /\ EngineIdle

agentRest == <<wall_at_start, steady_at_start, continuous_, AgentFrame>>

\* Agent::send_discovery, called by the owner of the agent
AgentSendDiscovery ==
    /\ program = "Agent" /\ transport_running_
    /\ refreshes < MaxRefreshes
    /\ broadcast_message_' = <<send_discovery(known_agents_, OwnAddress, system_clock_ms,
                                              AgentCapability)>>
    /\ has_broadcast_message_' = TRUE
    /\ refreshes' = refreshes + 1
    /\ wire' = <<>>
    /\ UNCHANGED <<known_agents_, transport_running_, timer_pc, last_broadcast, uptime_ms,
                   last_dispatch, agentRest>>

\* The network interface hands a datagram to Transport::handle_incoming_message
\* (unless it comes from the own address), which hands it to
\* Agent::handle_discovery_message.
AgentHandleIncoming(in, from) ==
    /\ program = "Agent" /\ transport_running_
    /\ from # OwnAddress
    /\ last_dispatch' = transport_dispatch(in.size, DiscoverySize, "handle_discovery_message")
    /\ known_agents_' =
           IF transport_dispatch(in.size, DiscoverySize, "handle_discovery_message") = "handled"
           THEN handle_discovery_message(known_agents_, in.msg)
           ELSE known_agents_
    /\ wire' = <<>>
    /\ UNCHANGED <<broadcast_message_, has_broadcast_message_, refreshes, transport_running_,
                   timer_pc, last_broadcast, uptime_ms, agentRest>>

\* Agent::~Agent: transport_.stop(): running_ = false
AgentStopFlag ==
    /\ program = "Agent" /\ transport_running_
    /\ transport_running_' = FALSE
    /\ wire' = <<>>
    /\ UNCHANGED <<known_agents_, broadcast_message_, has_broadcast_message_, refreshes,
                   timer_pc, last_broadcast, uptime_ms, last_dispatch, agentRest>>

\* Transport::stop: message_thread_.join() returns once message_loop has ended;
\* the position "joined" of the timer thread says that stop() has returned.
AgentStopJoin ==
    /\ program = "Agent" /\ ~transport_running_ /\ timer_pc = "done"
    /\ timer_pc' = "joined"
    /\ wire' = <<>>
    /\ UNCHANGED <<known_agents_, broadcast_message_, has_broadcast_message_, refreshes,
                   transport_running_, last_broadcast, uptime_ms, last_dispatch, agentRest>>

\* ---- Transport::message_loop

\* auto last_broadcast = std::chrono::steady_clock::now();
AgentTimerEntry ==
    /\ program = "Agent" /\ timer_pc = "entry"
    /\ last_broadcast' = steady_clock_ms
    /\ timer_pc' = "test"
    /\ wire' = <<>>
    /\ UNCHANGED <<known_agents_, broadcast_message_, has_broadcast_message_, refreshes,
                   transport_running_, uptime_ms, last_dispatch, agentRest>>

\* while (running_)
AgentTimerTest ==
    /\ program = "Agent" /\ timer_pc = "test"
    /\ timer_pc' = IF transport_running_ THEN "body" ELSE "done"
    /\ wire' = <<>>
    /\ UNCHANGED <<known_agents_, broadcast_message_, has_broadcast_message_, refreshes,
                   transport_running_, last_broadcast, uptime_ms, last_dispatch, agentRest>>

\* if (continuous_ && has_broadcast_message_) { re-stamp; send when the interval has passed }
AgentTimerBody ==
    /\ program = "Agent" /\ timer_pc = "body"
    /\ LET r == message_loop_body(continuous_ /\ has_broadcast_message_, broadcast_message_[1],
                                  last_broadcast, BroadcastIntervalMs, steady_clock_ms,
                                  steady_clock_count)
       IN /\ broadcast_message_' = <<r.message>>
          /\ wire' = r.sent
          /\ last_broadcast' = r.last
    /\ timer_pc' = "sleep"
    /\ UNCHANGED <<known_agents_, has_broadcast_message_, refreshes, transport_running_,
                   uptime_ms, last_dispatch, agentRest>>

\* std::this_thread::sleep_for(std::chrono::milliseconds(100));
AgentTimerSleep(d) ==
    /\ program = "Agent" /\ timer_pc = "sleep"
    /\ uptime_ms + d <= MaxUptimeMs
    /\ uptime_ms' = uptime_ms + d
    /\ timer_pc' = "test"
    /\ wire' = <<>>
    /\ UNCHANGED <<known_agents_, broadcast_message_, has_broadcast_message_, refreshes,
                   transport_running_, last_broadcast, last_dispatch, agentRest>>

NextAgent ==
    \/ AgentSendDiscovery
    \/ \E in \in DiscoveryPayloads, from \in Addresses : AgentHandleIncoming(in, from)
    \/ AgentStopFlag
    \/ AgentStopJoin
    \/ AgentTimerEntry
    \/ AgentTimerTest
    \/ AgentTimerBody
    \/ \E d \in SleepChoices : AgentTimerSleep(d)

SpecAgent == InitAgent /\ [][NextAgent]_vars

----------------------------------------------------------------------------
(* impulse::Transport<Discovery> (transport.hpp) as the Agent of            *)
(* examples/aris.cpp sets it up and feeds it                                *)

EngineCapability == 64          \* self_msg.capability_index = 64;
\* message_ and interval_ are not initialised by the constructor: what they hold
\* before set_broadcast is whatever the memory held.
GarbageDiscoveries ==
    {[timestamp |-> 0, join_time |-> 0, capability_index |-> 0],
     [timestamp |-> 3, join_time |-> 9, capability_index |-> -1]}
GarbageIntervals == {0, 250}

PackedMessages ==
    [timestamp : {PeerTimestamp}, join_time : PeerJoinTimes, capability_index : {95}]
PackedPayloads ==
    [size : {PackedDiscoverySize}, msg : PackedMessages]
        \cup [size : {10, DiscoverySize}, msg : GarbageDiscoveries]

\* impulse::Discovery self_msg of main: timestamp = join_time = now_time
self_msg == [timestamp |-> wall_at_start, join_time |-> wall_at_start,
             capability_index |-> EngineCapability]

\* impulse::Transport::Transport has run for discovery_: the timer thread exists,
\* continuous_ is false, nothing else is set.
InitEngine ==
    /\ program = "Engine" /\ codec = NoCodec /\ net = NoNet
    /\ wall_at_start \in WallClockChoices
    /\ steady_at_start \in SteadyClockChoices
    /\ uptime_ms = 0
    /\ transport_running_ = TRUE /\ continuous_ = FALSE /\ timer_pc = "entry"
    /\ last_broadcast = 0 /\ wire = <<>> /\ last_dispatch = "none"
    /\ message_ \in GarbageDiscoveries
    /\ interval_ \in GarbageIntervals
    /\ message_handler_ = "none"
    /\ all_discoveries_ = EmptyMap
    /\ owner_pc = "insert_self"
    /\ broadcast_args = NoArgs /\ observed = NotObserved /\ handler_log = NoHandlerLog
    /\ all_communication_ = EmptyMap /\ all_position_ = EmptyMap
    /\ PolicyIdle /\ BucketIdle /\ RobotIdle /\ AgentIdle

engineRest ==
    <<wall_at_start, steady_at_start, broadcast_args, observed, handler_log,
      all_communication_, all_position_, EngineFrame>>

\* Agent::Agent: all_discoveries_[address_] = discovery_msg;
EngineInsertSelf ==
    /\ program = "Engine" /\ owner_pc = "insert_self"
    /\ all_discoveries_' = Put(all_discoveries_, OwnAddress, self_msg)
    /\ owner_pc' = "set_handler"
    /\ UNCHANGED <<message_, interval_, message_handler_, transport_running_, continuous_,
                   timer_pc, last_broadcast, wire, uptime_ms, last_dispatch, engineRest>>

\* Transport::set_message_handler
EngineSetMessageHandler ==
    /\ program = "Engine" /\ owner_pc = "set_handler"
    /\ message_handler_' = "store_discovery"
    /\ owner_pc' = "set_interval"
    /\ UNCHANGED <<message_, interval_, all_discoveries_, transport_running_, continuous_,
                   timer_pc, last_broadcast, wire, uptime_ms, last_dispatch, engineRest>>

\* Transport::set_broadcast: interval_ = interval;
EngineSetBroadcastInterval ==
    /\ program = "Engine" /\ owner_pc = "set_interval"
    /\ interval_' = BroadcastIntervalMs
    /\ owner_pc' = "set_continuous"
    /\ UNCHANGED <<message_, message_handler_, all_discoveries_, transport_running_,
                   continuous_, timer_pc, last_broadcast, wire, uptime_ms, last_dispatch,
                   engineRest>>

\* Transport::set_broadcast: continuous_ = true;
EngineSetBroadcastContinuous ==
    /\ program = "Engine" /\ owner_pc = "set_continuous"
    /\ continuous_' = TRUE
    /\ owner_pc' = "set_message"
    /\ UNCHANGED <<message_, interval_, message_handler_, all_discoveries_,
                   transport_running_, timer_pc, last_broadcast, wire, uptime_ms,
                   last_dispatch, engineRest>>

\* Transport::set_broadcast: message_ = message;
EngineSetBroadcastMessage ==
    /\ program = "Engine" /\ owner_pc = "set_message"
    /\ message_' = self_msg
    /\ owner_pc' = "set_callback"
    /\ UNCHANGED <<interval_, message_handler_, all_discoveries_, transport_running_,
                   continuous_, timer_pc, last_broadcast, wire, uptime_ms, last_dispatch,
                   engineRest>>

\* Agent::Agent: network_interface->set_message_callback(...)
EngineSetCallback ==
    /\ program = "Engine" /\ owner_pc = "set_callback"
    /\ owner_pc' = "running"
    /\ UNCHANGED <<message_, interval_, message_handler_, all_discoveries_,
                   transport_running_, continuous_, timer_pc, last_broadcast, wire, uptime_ms,
                   last_dispatch, engineRest>>

\* The interface's receive thread hands a datagram (not from the own address)
\* to the callback, which hands it to discovery_.handle_incoming_message; the
\* registered handler is  all_discoveries_[address] = msg.
EngineHandleIncoming(in, from) ==
    /\ program = "Engine" /\ owner_pc \in {"running", "status", "join"}
    /\ from # OwnAddress
    /\ last_dispatch' = transport_dispatch(in.size, PackedDiscoverySize, message_handler_)
    /\ all_discoveries_' =
           IF transport_dispatch(in.size, PackedDiscoverySize, message_handler_) = "handled"
           THEN Put(all_discoveries_, from, in.msg)
           ELSE all_discoveries_
    /\ UNCHANGED <<message_, interval_, message_handler_, owner_pc, transport_running_,
                   continuous_, timer_pc, last_broadcast, wire, uptime_ms, engineRest>>

\* main: for (const auto &[ipv6, agent] : participant.all_discoveries_) starts to
\* walk the table; no lock is taken.
EngineStatusBegin ==
    /\ program = "Engine" /\ owner_pc = "running"
    /\ owner_pc' = "status"
    /\ UNCHANGED <<message_, interval_, message_handler_, all_discoveries_,
                   transport_running_, continuous_, timer_pc, last_broadcast, wire, uptime_ms,
                   last_dispatch, engineRest>>

\* main: the walk of the table reaches its end.
EngineStatusEnd ==
    /\ program = "Engine" /\ owner_pc = "status"
    /\ owner_pc' = "running"
    /\ UNCHANGED <<message_, interval_, message_handler_, all_discoveries_,
                   transport_running_, continuous_, timer_pc, last_broadcast, wire, uptime_ms,
                   last_dispatch, engineRest>>

\* impulse::Transport::~Transport: running_ = false;
EngineStopFlag ==
    /\ program = "Engine" /\ owner_pc = "running"
    /\ transport_running_' = FALSE
    /\ owner_pc' = "join"
    /\ UNCHANGED <<message_, interval_, message_handler_, all_discoveries_, continuous_,
                   timer_pc, last_broadcast, wire, uptime_ms, last_dispatch, engineRest>>

\* impulse::Transport::~Transport: message_thread_.join();
EngineStopJoin ==
    /\ program = "Engine" /\ owner_pc = "join"
    /\ timer_pc = "done"
    /\ owner_pc' = "destroyed"
    /\ UNCHANGED <<message_, interval_, message_handler_, all_discoveries_,
                   transport_running_, continuous_, timer_pc, last_broadcast, wire, uptime_ms,
                   last_dispatch, engineRest>>

\* ---- impulse::Transport::message_loop

\* auto last_broadcast = std::chrono::steady_clock::now();
EngineTimerEntry ==
    /\ program = "Engine" /\ timer_pc = "entry"
    /\ last_broadcast' = steady_clock_ms
    /\ timer_pc' = "test"
    /\ UNCHANGED <<message_, interval_, message_handler_, all_discoveries_, owner_pc,
                   transport_running_, continuous_, wire, uptime_ms, last_dispatch, engineRest>>

\* while (running_)
EngineTimerTest ==
    /\ program = "Engine" /\ timer_pc = "test"
    /\ timer_pc' = IF transport_running_ THEN "body" ELSE "done"
    /\ wire' = <<>>
    /\ UNCHANGED <<message_, interval_, message_handler_, all_discoveries_, owner_pc,
                   transport_running_, continuous_, last_broadcast, uptime_ms, last_dispatch,
                   engineRest>>

\* if (continuous_) { re-stamp message_; send it when interval_ has passed }
EngineTimerBody ==
    /\ program = "Engine" /\ timer_pc = "body"
    /\ LET r == message_loop_body(continuous_, message_, last_broadcast, interval_,
                                  steady_clock_ms, steady_clock_count)
       IN /\ message_' = r.message
          /\ wire' = r.sent
          /\ last_broadcast' = r.last
    /\ timer_pc' = "sleep"
    /\ UNCHANGED <<interval_, message_handler_, all_discoveries_, owner_pc,
                   transport_running_, continuous_, uptime_ms, last_dispatch, engineRest>>

\* std::this_thread::sleep_for(std::chrono::milliseconds(100));
EngineTimerSleep(d) ==
    /\ program = "Engine" /\ timer_pc = "sleep"
    /\ uptime_ms + d <= MaxUptimeMs
    /\ uptime_ms' = uptime_ms + d
    /\ timer_pc' = "test"
    /\ UNCHANGED <<message_, interval_, message_handler_, all_discoveries_, owner_pc,
                   transport_running_, continuous_, last_broadcast, wire, last_dispatch,
                   engineRest>>

NextEngine ==
    \/ EngineInsertSelf
    \/ EngineSetMessageHandler
    \/ EngineSetBroadcastInterval
    \/ EngineSetBroadcastContinuous
    \/ EngineSetBroadcastMessage
    \/ EngineSetCallback
    \/ \E in \in PackedPayloads, from \in Addresses : EngineHandleIncoming(in, from)
    \/ EngineStatusBegin
    \/ EngineStatusEnd
    \/ EngineStopFlag
    \/ EngineStopJoin
    \/ EngineTimerEntry
    \/ EngineTimerTest
    \/ EngineTimerBody
    \/ \E d \in SleepChoices : EngineTimerSleep(d)

SpecEngine == InitEngine /\ [][NextEngine]_vars

----------------------------------------------------------------------------
(* Agent (agents.hpp, first revision) on Transport<Discovery> without       *)
(* broadcast: the handler stores a peer only when the sharing policy says so *)

\* The Discovery messages this agent may be handed: as DiscoveryMessages, with
\* capabilities on both sides of the policy.
GatedDiscoveryMessages ==
    [ipv6 : Addresses, timestamp : {PeerTimestamp}, join_time : PeerJoinTimes,
     capability_index : MsgCapabilities]
GatedDiscoveryPayloads ==
    [size : {DiscoverySize}, msg : GatedDiscoveryMessages]
        \cup [size : {10}, msg : {NoDiscovery}]

\* Agent::handle_discovery_message storing a peer only when it has no record of it.
gated_handle_keep_first(known, msg, capability) ==
    IF should_share_info_with(capability, msg.capability_index)
    THEN [known |-> IF msg.ipv6 \in DOMAIN known THEN known ELSE Put(known, msg.ipv6, msg),
          path |-> "accepted"]
    ELSE [known |-> known, path |-> "rejected"]

\* Agent::handle_discovery_message (first revision): the table it leaves and the
\* path it took.
gated_handle_discovery_message(known, msg, capability) ==
    IF should_share_info_with(capability, msg.capability_index)
    THEN [known |-> Put(known, msg.ipv6, msg), path |-> "accepted"]
    ELSE [known |-> known, path |-> "rejected"]

\* Agent::Agent: the transport is constructed and the handler set.
InitAgentV1 ==
    /\ program = "AgentV1" /\ codec = NoCodec /\ net = NoNet
    /\ capability_index_ \in ArisCapabilities
    /\ wall_at_start \in WallClockChoices
    /\ uptime_ms = 0
    /\ known_agents_ = EmptyMap
    /\ transport_running_ = FALSE /\ timer_pc = "not_started"
    /\ main_pc = "constructed"
    /\ wire = <<>> /\ last_dispatch = "none" /\ last_rx = "none"
    /\ chosen_protocol_ = NONE /\ known_robots_ = EmptyMap
    /\ running_ = FALSE /\ multicast_fd_ = "closed" /\ pc = "idle"
    /\ heard_network = FALSE /\ i = 0 /\ listen_duration = 0 /\ listen_elapsed = 0
    /\ last_sent = NoMsg
    /\ continuous_ = FALSE /\ last_broadcast = 0 /\ steady_at_start = 0
    /\ PolicyIdle /\ BucketIdle /\ AgentIdle /\ EngineIdle

AgentV1Frame ==
    <<program, codec, net, policyVars, bucketVars, engineVars, capability_index_, wall_at_start,
      chosen_protocol_, known_robots_, running_, multicast_fd_, pc, heard_network, i,
      listen_duration, listen_elapsed, last_sent, continuous_, last_broadcast,
      steady_at_start, broadcast_message_, has_broadcast_message_, refreshes>>

\* Agent::start: known_agents_[get_ipv6()] = self_msg; transport_.start() registers
\* the callback, sets running_ and starts the message thread.
AgentV1Start ==
    /\ program = "AgentV1" /\ main_pc = "constructed"
    /\ known_agents_' = Put(known_agents_, OwnAddress,
                            [ipv6 |-> OwnAddress, timestamp |-> system_clock_ms,
                             join_time |-> system_clock_ms,
                             capability_index |-> capability_index_])
    /\ transport_running_' = TRUE
    /\ timer_pc' = "test"
    /\ main_pc' = "started"
    /\ wire' = <<>>
    /\ UNCHANGED <<uptime_ms, last_dispatch, last_rx, AgentV1Frame>>

\* Agent::send_discovery: a fresh message, timestamp = join_time = now
AgentV1SendDiscovery ==
    /\ program = "AgentV1" /\ main_pc \in {"constructed", "started"}
    /\ wire' = <<[ipv6 |-> OwnAddress, timestamp |-> system_clock_ms,
                  join_time |-> system_clock_ms, capability_index |-> capability_index_]>>
    /\ UNCHANGED <<known_agents_, transport_running_, timer_pc, main_pc, uptime_ms,
                   last_dispatch, last_rx, AgentV1Frame>>

\* The network interface hands a datagram (not from the own address) to the
\* callback Transport::start registered: Transport::handle_incoming_message, then
\* Agent::handle_discovery_message.  The callback stays registered after stop().
AgentV1HandleIncoming(in, from) ==
    /\ program = "AgentV1" /\ main_pc \in {"started", "stop_join", "stopped"}
    /\ from # OwnAddress
    /\ LET d == transport_dispatch(in.size, DiscoverySize, "handle_discovery_message")
           r == gated_handle_discovery_message(known_agents_, in.msg, capability_index_)
       IN /\ last_dispatch' = d
          /\ known_agents_' = IF d = "handled" THEN r.known ELSE known_agents_
          /\ last_rx' = IF d = "handled" THEN r.path ELSE "badsize"
    /\ wire' = <<>>
    /\ UNCHANGED <<transport_running_, timer_pc, main_pc, uptime_ms, AgentV1Frame>>

\* Agent::stop / Transport::stop: running_ = false;
AgentV1StopFlag ==
    /\ program = "AgentV1" /\ main_pc = "started"
    /\ transport_running_' = FALSE
    /\ main_pc' = "stop_join"
    /\ wire' = <<>>
    /\ UNCHANGED <<known_agents_, timer_pc, uptime_ms, last_dispatch, last_rx, AgentV1Frame>>

\* Transport::stop: message_thread_.join();
AgentV1StopJoin ==
    /\ program = "AgentV1" /\ main_pc = "stop_join"
    /\ timer_pc = "done"
    /\ main_pc' = "stopped"
    /\ wire' = <<>>
    /\ UNCHANGED <<known_agents_, transport_running_, timer_pc, uptime_ms, last_dispatch,
                   last_rx, AgentV1Frame>>

\* Transport::message_loop: while (running_)
AgentV1LoopTest ==
    /\ program = "AgentV1" /\ timer_pc = "test"
    /\ timer_pc' = IF transport_running_ THEN "sleep" ELSE "done"
    /\ wire' = <<>>
    /\ UNCHANGED <<known_agents_, transport_running_, main_pc, uptime_ms, last_dispatch,
                   last_rx, AgentV1Frame>>

\* std::this_thread::sleep_for(std::chrono::milliseconds(100));
AgentV1LoopSleep(d) ==
    /\ program = "AgentV1" /\ timer_pc = "sleep"
    /\ uptime_ms + d <= MaxUptimeMs
    /\ uptime_ms' = uptime_ms + d
    /\ timer_pc' = "test"
    /\ wire' = <<>>
    /\ UNCHANGED <<known_agents_, transport_running_, main_pc, last_dispatch, last_rx,
                   AgentV1Frame>>

NextAgentV1 ==
    \/ AgentV1Start
    \/ AgentV1SendDiscovery
    \/ \E in \in GatedDiscoveryPayloads, from \in Addresses : AgentV1HandleIncoming(in, from)
    \/ AgentV1StopFlag
    \/ AgentV1StopJoin
    \/ AgentV1LoopTest
    \/ \E d \in SleepChoices : AgentV1LoopSleep(d)

SpecAgentV1 == InitAgentV1 /\ [][NextAgentV1]_vars

\* The two participants whose receive path is gated by the sharing policy and
\* keyed by the identity the message declares.
InitGated == (InitRobot /\ capability_index_ \in MsgCapabilities) \/ InitAgentV1

NextGated == NextRobot \/ NextAgentV1

SpecGated == InitGated /\ [][NextGated]_vars

\* The three participants that put the sharing policy before their peer table.
InitPolicyGated == InitGated \/ InitAris

NextPolicyGated == NextRobot \/ NextAgentV1 \/ NextAris

SpecPolicyGated == InitPolicyGated /\ [][NextPolicyGated]_vars

----------------------------------------------------------------------------
(* impulse::Transport<Discovery> armed once with a short interval, and an   *)
(* observer of its multicast stream                                         *)

CadenceIntervalMs == 2 * SleepMs    \* set_broadcast(message, 200 ms)
WindowMs == 10 * SleepMs            \* the observer looks at windows of one second
CadenceHorizonMs == 1600            \* how long the model follows the armed engine
MaxLateMs == SleepMs                \* sleeps return late by one tick at most, in total
LateChoices == {0, SleepMs \div 2, SleepMs}

\* impulse::Transport::Transport has run: the timer thread exists and the
\* engine is not armed.
InitCadence ==
    /\ program = "Cadence" /\ codec = NoCodec /\ net = NoNet
    /\ wall_at_start \in WallClockChoices
    /\ steady_at_start \in SteadyClockChoices
    /\ uptime_ms = 0
    /\ transport_running_ = TRUE /\ continuous_ = FALSE /\ timer_pc = "entry"
    /\ last_broadcast = 0 /\ wire = <<>> /\ last_dispatch = "none"
    /\ message_ \in GarbageDiscoveries
    /\ interval_ \in GarbageIntervals
    /\ message_handler_ = "none" /\ all_discoveries_ = EmptyMap /\ owner_pc = "idle"
    /\ broadcast_args = NoArgs
    /\ observed = NotObserved /\ handler_log = NoHandlerLog
    /\ all_communication_ = EmptyMap /\ all_position_ = EmptyMap
    /\ PolicyIdle /\ BucketIdle /\ RobotIdle /\ AgentIdle

CadenceFrame ==
    <<program, codec, net, policyVars, bucketVars, robotVars, agentVars, wall_at_start, steady_at_start,
      transport_running_, last_dispatch, message_handler_, all_discoveries_, owner_pc,
      broadcast_args, handler_log, all_communication_, all_position_>>

\* The owner calls set_broadcast(self_msg, 200 ms) while nothing else runs; the
\* observer notes when.
CadenceArm ==
    /\ program = "Cadence" /\ observed.armed_at = -1
    /\ interval_' = CadenceIntervalMs
    /\ continuous_' = TRUE
    /\ message_' = self_msg
    /\ observed' = [observed EXCEPT !.armed_at = uptime_ms]
    /\ wire' = <<>>
    /\ UNCHANGED <<timer_pc, last_broadcast, uptime_ms, CadenceFrame>>

\* auto last_broadcast = std::chrono::steady_clock::now();
CadenceTimerEntry ==
    /\ program = "Cadence" /\ timer_pc = "entry"
    /\ last_broadcast' = steady_clock_ms
    /\ timer_pc' = "test"
    /\ wire' = <<>>
    /\ UNCHANGED <<message_, interval_, continuous_, uptime_ms, observed, CadenceFrame>>

\* while (running_)
CadenceTimerTest ==
    /\ program = "Cadence" /\ timer_pc = "test"
    /\ timer_pc' = IF transport_running_ THEN "body" ELSE "done"
    /\ wire' = <<>>
    /\ UNCHANGED <<message_, interval_, continuous_, last_broadcast, uptime_ms, observed,
                   CadenceFrame>>

\* if (continuous_) { re-stamp message_; send it when interval_ has passed };
\* the observer notes every message sent and when it saw it.
CadenceTimerBody ==
    /\ program = "Cadence" /\ timer_pc = "body"
    /\ LET r == message_loop_body(continuous_, message_, last_broadcast, interval_,
                                  steady_clock_ms, steady_clock_count)
       IN /\ message_' = r.message
          /\ wire' = r.sent
          /\ last_broadcast' = r.last
          /\ observed' =
                 IF r.sent = <<>> THEN observed
                 ELSE [observed EXCEPT
                          !.sent = Append(@, [at |-> uptime_ms,
                                              timestamp |-> r.sent[1].timestamp])]
    /\ timer_pc' = "sleep"
    /\ UNCHANGED <<interval_, continuous_, uptime_ms, CadenceFrame>>

\* std::this_thread::sleep_for(std::chrono::milliseconds(100)), returning late
CadenceTimerSleep(late) ==
    /\ program = "Cadence" /\ timer_pc = "sleep"
    /\ observed.late_ms + late <= MaxLateMs
    /\ uptime_ms + SleepMs + late <= CadenceHorizonMs
    /\ uptime_ms' = uptime_ms + SleepMs + late
    /\ observed' = [observed EXCEPT !.late_ms = @ + late]
    /\ timer_pc' = "test"
    /\ wire' = <<>>
    /\ UNCHANGED <<message_, interval_, continuous_, last_broadcast, CadenceFrame>>

NextCadence ==
    \/ CadenceArm
    \/ CadenceTimerEntry
    \/ CadenceTimerTest
    \/ CadenceTimerBody
    \/ \E late \in LateChoices : CadenceTimerSleep(late)

SpecCadence == InitCadence /\ [][NextCadence]_vars

----------------------------------------------------------------------------
(* impulse::Transport<Discovery> under an owner that arms, re-arms and       *)
(* disarms it at will; the timer's pass is followed in two steps, the test   *)
(* of the flag and the send                                                  *)

\* The payloads and intervals the owner may pass to set_broadcast.
BroadcastMessages == {self_msg, [self_msg EXCEPT !.capability_index = AgentCapability]}
BroadcastIntervals == {CadenceIntervalMs, BroadcastIntervalMs}
BroadcastHorizonMs == 800       \* how long the model follows this owner

\* What arrives from the network: one well-formed Discovery and one datagram
\* of another size.
BroadcastPayloads ==
    {p \in PackedPayloads :
        /\ p.size # DiscoverySize
        /\ \A q \in PackedPayloads : q.size = p.size => p.msg.join_time <= q.msg.join_time}

\* The first half of message_loop's body: if (continuous_) { re-stamp message_;
\* if (now - last_broadcast >= interval_) ...: the message it leaves and whether
\* the pass goes on to send.
message_loop_check(enabled, message, last, interval, now_ms, now_count) ==
    IF ~enabled
    THEN [message |-> message, send |-> FALSE]
    ELSE [message |-> set_timestamp(message, now_count), send |-> now_ms - last >= interval]

\* impulse::Transport::Transport has run: the timer thread exists, the engine
\* is not armed, message_ and interval_ hold what the memory held.
InitBroadcast ==
    /\ program = "Broadcast" /\ codec = NoCodec /\ net = NoNet
    /\ wall_at_start \in WallClockChoices
    /\ steady_at_start \in SteadyClockChoices
    /\ uptime_ms = 0
    /\ transport_running_ = TRUE /\ continuous_ = FALSE /\ timer_pc = "entry"
    /\ last_broadcast = 0 /\ wire = <<>> /\ last_dispatch = "none"
    /\ message_ \in GarbageDiscoveries
    /\ interval_ \in GarbageIntervals
    /\ message_handler_ = "none"
    /\ all_discoveries_ = EmptyMap
    /\ owner_pc = "ready"
    /\ broadcast_args = NoArgs
    /\ observed = NotObserved /\ handler_log = NoHandlerLog
    /\ all_communication_ = EmptyMap /\ all_position_ = EmptyMap
    /\ PolicyIdle /\ BucketIdle /\ RobotIdle /\ AgentIdle

broadcastRest ==
    <<program, codec, net, policyVars, bucketVars, robotVars, agentVars, wall_at_start, steady_at_start,
      transport_running_, observed, handler_log, all_communication_, all_position_>>

\* Transport::set_message_handler
BroadcastSetHandler ==
    /\ program = "Broadcast" /\ owner_pc = "ready" /\ message_handler_ = "none"
    /\ message_handler_' = "store_discovery"
    /\ wire' = <<>>
    /\ UNCHANGED <<message_, interval_, continuous_, all_discoveries_, owner_pc, broadcast_args,
                   timer_pc, last_broadcast, uptime_ms, last_dispatch, broadcastRest>>

\* Transport::set_broadcast(message, interval) is called:  interval_ = interval;
\* without the store when the engine is armed already.
BroadcastSetIntervalOnce(message, interval) ==
    /\ program = "Broadcast" /\ owner_pc = "ready"
    /\ broadcast_args' = [message |-> message, interval |-> interval]
    /\ interval_' = IF continuous_ THEN interval_ ELSE interval
    /\ owner_pc' = "set_continuous"
    /\ wire' = <<>>
    /\ UNCHANGED <<message_, continuous_, message_handler_, all_discoveries_, timer_pc,
                   last_broadcast, uptime_ms, last_dispatch, broadcastRest>>

\* Transport::set_broadcast(message, interval) is called:  interval_ = interval;
BroadcastSetInterval(message, interval) ==
    /\ program = "Broadcast" /\ owner_pc = "ready"
    /\ broadcast_args' = [message |-> message, interval |-> interval]
    /\ interval_' = interval
    /\ owner_pc' = "set_continuous"
    /\ wire' = <<>>
    /\ UNCHANGED <<message_, continuous_, message_handler_, all_discoveries_, timer_pc,
                   last_broadcast, uptime_ms, last_dispatch, broadcastRest>>

\* Transport::set_broadcast: continuous_ = true;
BroadcastSetContinuous ==
    /\ program = "Broadcast" /\ owner_pc = "set_continuous"
    /\ continuous_' = TRUE
    /\ owner_pc' = "set_message"
    /\ wire' = <<>>
    /\ UNCHANGED <<message_, interval_, message_handler_, all_discoveries_, broadcast_args,
                   timer_pc, last_broadcast, uptime_ms, last_dispatch, broadcastRest>>

\* Transport::set_broadcast: message_ = message;  and the call returns
BroadcastSetMessage ==
    /\ program = "Broadcast" /\ owner_pc = "set_message"
    /\ message_' = broadcast_args.message
    /\ owner_pc' = "ready"
    /\ wire' = <<>>
    /\ UNCHANGED <<interval_, continuous_, message_handler_, all_discoveries_, broadcast_args,
                   timer_pc, last_broadcast, uptime_ms, last_dispatch, broadcastRest>>

\* Transport::unset_broadcast: continuous_ = false;  and the call returns
BroadcastUnset ==
    /\ program = "Broadcast" /\ owner_pc = "ready"
    /\ continuous_' = FALSE
    /\ wire' = <<>>
    /\ UNCHANGED <<message_, interval_, message_handler_, all_discoveries_, owner_pc,
                   broadcast_args, timer_pc, last_broadcast, uptime_ms, last_dispatch,
                   broadcastRest>>

\* Transport::handle_incoming_message, called on the interface's receive thread;
\* the registered handler stores the message under the sender's address.
BroadcastHandleIncoming(in, from) ==
    /\ program = "Broadcast"
    /\ from # OwnAddress
    /\ last_dispatch' = transport_dispatch(in.size, PackedDiscoverySize, message_handler_)
    /\ all_discoveries_' =
           IF transport_dispatch(in.size, PackedDiscoverySize, message_handler_) = "handled"
           THEN Put(all_discoveries_, from, in.msg)
           ELSE all_discoveries_
    /\ wire' = <<>>
    /\ UNCHANGED <<message_, interval_, continuous_, message_handler_, owner_pc,
                   broadcast_args, timer_pc, last_broadcast, uptime_ms, broadcastRest>>

\* auto last_broadcast = std::chrono::steady_clock::now();
BroadcastTimerEntry ==
    /\ program = "Broadcast" /\ timer_pc = "entry"
    /\ last_broadcast' = steady_clock_ms
    /\ timer_pc' = "test"
    /\ wire' = <<>>
    /\ UNCHANGED <<message_, interval_, continuous_, message_handler_, all_discoveries_,
                   owner_pc, broadcast_args, uptime_ms, last_dispatch, broadcastRest>>

\* while (running_)
BroadcastTimerTest ==
    /\ program = "Broadcast" /\ timer_pc = "test"
    /\ timer_pc' = IF transport_running_ THEN "check" ELSE "done"
    /\ wire' = <<>>
    /\ UNCHANGED <<message_, interval_, continuous_, message_handler_, all_discoveries_,
                   owner_pc, broadcast_args, last_broadcast, uptime_ms, last_dispatch,
                   broadcastRest>>

\* if (continuous_) { now; message_.set_timestamp(...); if (now - last_broadcast >= interval_)
BroadcastTimerCheck ==
    /\ program = "Broadcast" /\ timer_pc = "check"
    /\ LET r == message_loop_check(continuous_, message_, last_broadcast, interval_,
                                   steady_clock_ms, steady_clock_count)
       IN /\ message_' = r.message
          /\ timer_pc' = IF r.send THEN "send" ELSE "sleep"
    /\ wire' = <<>>
    /\ UNCHANGED <<interval_, continuous_, message_handler_, all_discoveries_, owner_pc,
                   broadcast_args, last_broadcast, uptime_ms, last_dispatch, broadcastRest>>

\* send_message(message_); last_broadcast = now;
BroadcastTimerSend ==
    /\ program = "Broadcast" /\ timer_pc = "send"
    /\ wire' = <<message_>>
    /\ last_broadcast' = steady_clock_ms
    /\ timer_pc' = "sleep"
    /\ UNCHANGED <<message_, interval_, continuous_, message_handler_, all_discoveries_,
                   owner_pc, broadcast_args, uptime_ms, last_dispatch, broadcastRest>>

\* std::this_thread::sleep_for(std::chrono::milliseconds(100));
BroadcastTimerSleep(d) ==
    /\ program = "Broadcast" /\ timer_pc = "sleep"
    /\ uptime_ms + d <= BroadcastHorizonMs
    /\ uptime_ms' = uptime_ms + d
    /\ timer_pc' = "test"
    /\ wire' = <<>>
    /\ UNCHANGED <<message_, interval_, continuous_, message_handler_, all_discoveries_,
                   owner_pc, broadcast_args, last_broadcast, last_dispatch, broadcastRest>>

NextBroadcast ==
    \/ BroadcastSetHandler
    \/ \E message \in BroadcastMessages, interval \in BroadcastIntervals :
           BroadcastSetInterval(message, interval)
    \/ BroadcastSetContinuous
    \/ BroadcastSetMessage
    \/ BroadcastUnset
    \/ \E in \in BroadcastPayloads, from \in Addresses : BroadcastHandleIncoming(in, from)
    \/ BroadcastTimerEntry
    \/ BroadcastTimerTest
    \/ BroadcastTimerCheck
    \/ BroadcastTimerSend
    \/ \E d \in SleepChoices : BroadcastTimerSleep(d)

SpecBroadcast == InitBroadcast /\ [][NextBroadcast]_vars

----------------------------------------------------------------------------
(* impulse::Transport<Discovery>: registering handlers and dispatching to    *)
(* them.  The timer thread touches neither message_handler_ nor the inbound  *)
(* path and is left out here.                                                *)

\* The callbacks an owner registers: the one of examples/aris.cpp, which stores
\* the message under the sender's address, and the one of the README, which
\* hands it to the owner's own peer handling.
HandlerChoices == {"store_discovery", "handle_peer_message"}
SourcePorts == {8000, 40000}    \* ntohs(from.sin6_port)
MaxRegistrations == 3           \* how many set_message_handler calls the model follows

\* A dispatch that calls every handler registered so far, in order.
invoke_handlers_additive(handler, registered, in, from, port) ==
    IF in.size # PackedDiscoverySize THEN <<>>
    ELSE [k \in 1..Len(registered) |->
            [handler |-> registered[k], msg |-> in.msg, address |-> from, port |-> port]]

\* Transport::handle_incoming_message: the calls it makes.  A payload of the
\* message type's size is deserialized and handed, with the sender's address
\* and port, to message_handler_ if that is set.
invoke_handlers(handler, registered, in, from, port) ==
    IF in.size # PackedDiscoverySize THEN <<>>
    ELSE IF handler = "none" THEN <<>>
    ELSE <<[handler |-> handler, msg |-> in.msg, address |-> from, port |-> port]>>

\* What the calls leave in Agent::all_discoveries_: store_discovery is
\* all_discoveries_[address] = msg; the other handler keeps its own table.
RECURSIVE run_handlers(_, _)
run_handlers(calls, table) ==
    IF calls = <<>> THEN table
    ELSE run_handlers(Tail(calls),
                      IF Head(calls).handler = "store_discovery"
                      THEN Put(table, Head(calls).address, Head(calls).msg)
                      ELSE table)

\* impulse::Transport::Transport has run; no handler is registered.
InitHandlers ==
    /\ program = "Handlers" /\ codec = NoCodec /\ net = NoNet
    /\ message_ = <<>> /\ interval_ = 0 /\ message_handler_ = "none"
    /\ all_discoveries_ = EmptyMap /\ owner_pc = "ready"
    /\ broadcast_args = NoArgs /\ observed = NotObserved /\ handler_log = NoHandlerLog
    /\ all_communication_ = EmptyMap /\ all_position_ = EmptyMap
    /\ PolicyIdle /\ BucketIdle /\ RobotIdle /\ TransportIdle /\ AgentIdle

handlersRest ==
    <<program, codec, net, policyVars, bucketVars, robotVars, agentVars, transport_running_, continuous_,
      timer_pc, last_broadcast, wire, uptime_ms, wall_at_start, steady_at_start, message_,
      interval_, owner_pc, broadcast_args, observed, all_communication_, all_position_>>

\* Transport::set_message_handler(handler):  message_handler_ = handler;
HandlersSetMessageHandler(handler) ==
    /\ program = "Handlers"
    /\ Len(handler_log.registered) < MaxRegistrations
    /\ message_handler_' = handler
    /\ handler_log' = [registered |-> Append(handler_log.registered, handler), invoked |-> <<>>]
    /\ UNCHANGED <<all_discoveries_, last_dispatch, handlersRest>>

\* Transport::handle_incoming_message(message, from_addr, from_port), called by
\* the interface's receive thread
HandlersHandleIncoming(in, from, port) ==
    /\ program = "Handlers"
    /\ LET calls == invoke_handlers(message_handler_, handler_log.registered, in, from, port)
       IN /\ handler_log' = [handler_log EXCEPT !.invoked = calls]
          /\ all_discoveries_' = run_handlers(calls, all_discoveries_)
    /\ last_dispatch' = transport_dispatch(in.size, PackedDiscoverySize, message_handler_)
    /\ UNCHANGED <<message_handler_, handlersRest>>

NextHandlers ==
    \/ \E handler \in HandlerChoices : HandlersSetMessageHandler(handler)
    \/ \E in \in PackedPayloads, from \in Addresses, port \in SourcePorts :
           HandlersHandleIncoming(in, from, port)

SpecHandlers == InitHandlers /\ [][NextHandlers]_vars

----------------------------------------------------------------------------
(* Serialization of the message variants (message.hpp of the core, and the    *)
(* AgentMessage of protocol/aris.hpp): memcpy of the object into the buffer   *)
(* and back.  A buffer is a sequence of bytes; an integer field is laid down  *)
(* little-endian in its width, a char array or a struct of doubles (Datum,    *)
(* GeoPoint, Pose) is the sequence of its bytes.  The model's integers are    *)
(* below 2^31, so the upper half of a uint64_t field is always zero.          *)

PositionSize == 64              \* sizeof(Position): vtable pointer, timestamp, concord::Pose
CommunicationSize == 18         \* sizeof(Communication): vtable pointer, timestamp, two uint8_t
ByteValues == 256

\* Where each field lies in the object.  The Message variants are packed and
\* start with the vtable pointer; AgentMessage is a plain struct with the
\* padding the ABI gives it.
Layout(variant) ==
    CASE variant = "Discovery" ->
            <<[field |-> "timestamp", offset |-> 8, width |-> 8, kind |-> "uint"],
              [field |-> "join_time", offset |-> 16, width |-> 8, kind |-> "uint"],
              [field |-> "zero_ref", offset |-> 24, width |-> 24, kind |-> "bytes"],
              [field |-> "orchestrator", offset |-> 48, width |-> 1, kind |-> "bool"],
              [field |-> "capability_index", offset |-> 49, width |-> 4, kind |-> "int"]>>
      [] variant = "Position" ->
            <<[field |-> "timestamp", offset |-> 8, width |-> 8, kind |-> "uint"],
              [field |-> "pose", offset |-> 16, width |-> 48, kind |-> "bytes"]>>
      [] variant = "Communication" ->
            <<[field |-> "timestamp", offset |-> 8, width |-> 8, kind |-> "uint"],
              [field |-> "transport_type", offset |-> 16, width |-> 1, kind |-> "uint"],
              [field |-> "serialization_type", offset |-> 17, width |-> 1, kind |-> "uint"]>>
      [] variant = "AgentMessage" ->
            <<[field |-> "timestamp", offset |-> 0, width |-> 8, kind |-> "uint"],
              [field |-> "public_key", offset |-> 8, width |-> 64, kind |-> "bytes"],
              [field |-> "uuid", offset |-> 72, width |-> 37, kind |-> "bytes"],
              [field |-> "orchestrator", offset |-> 109, width |-> 1, kind |-> "bool"],
              [field |-> "zero_ref", offset |-> 112, width |-> 24, kind |-> "bytes"],
              [field |-> "participant_uuids", offset |-> 136, width |-> 370, kind |-> "bytes"],
              [field |-> "capability_index", offset |-> 508, width |-> 4, kind |-> "int"],
              [field |-> "medium", offset |-> 512, width |-> 4, kind |-> "uint"],
              [field |-> "protocol", offset |-> 516, width |-> 4, kind |-> "int"],
              [field |-> "ipv6_addresses", offset |-> 520, width |-> 138, kind |-> "bytes"],
              [field |-> "robot_id", offset |-> 660, width |-> 4, kind |-> "uint"],
              [field |-> "robot_name", offset |-> 664, width |-> 32, kind |-> "bytes"]>>

\* get_size() / sizeof(AgentMessage)
SizeOf(variant) ==
    CASE variant = "Discovery" -> PackedDiscoverySize
      [] variant = "Position" -> PositionSize
      [] variant = "Communication" -> CommunicationSize
      [] variant = "AgentMessage" -> AgentMessageSize

\* The object representation of a field's value.
EncodeUint(n, width) ==
    [k \in 1..width |-> IF k <= 4 THEN (n \div (ByteValues ^ (k - 1))) % ByteValues ELSE 0]
EncodeInt(v) ==
    IF v >= 0 THEN EncodeUint(v, 4)
    ELSE [EncodeUint((v + IntMax) + 1, 4) EXCEPT ![4] = @ + 128]
Encode(kind, value, width) ==
    CASE kind = "uint" -> EncodeUint(value, width)
      [] kind = "int" -> EncodeInt(value)
      [] kind = "bool" -> <<IF value THEN 1 ELSE 0>>
      [] kind = "bytes" -> value

\* The value a field has whose object representation is these bytes.
DecodeUint(bytes) ==
    LET at(k) == IF k <= Len(bytes) THEN bytes[k] * (ByteValues ^ (k - 1)) ELSE 0
    IN at(1) + at(2) + at(3) + at(4)
DecodeInt(bytes) ==
    IF bytes[4] >= 128
    THEN (DecodeUint([bytes EXCEPT ![4] = @ - 128]) - IntMax) - 1
    ELSE DecodeUint(bytes)
Decode(kind, bytes) ==
    CASE kind = "uint" -> DecodeUint(bytes)
      [] kind = "int" -> DecodeInt(bytes)
      [] kind = "bool" -> bytes[1] # 0
      [] kind = "bytes" -> bytes

\* The bytes of the object.  Those that belong to no field (vtable pointer,
\* padding) hold `padding`.
ObjectBytes(variant, msg, padding) ==
    [b \in 1..SizeOf(variant) |->
        LET covering == {k \in DOMAIN Layout(variant) :
                            /\ Layout(variant)[k].offset < b
                            /\ b <= Layout(variant)[k].offset + Layout(variant)[k].width}
        IN IF covering = {} THEN padding
           ELSE LET e == Layout(variant)[CHOOSE k \in covering : TRUE]
                IN Encode(e.kind, msg[e.field], e.width)[b - e.offset]]

\* A copy that treats the object as a C string: nothing after its first zero
\* byte reaches the buffer.
serialize_as_c_string(variant, msg, padding) ==
    [b \in 1..SizeOf(variant) |->
        IF \E j \in 1..b : ObjectBytes(variant, msg, padding)[j] = 0
        THEN 0 ELSE ObjectBytes(variant, msg, padding)[b]]

\* serialize: memcpy(buffer, this, sizeof(*this)): every byte of the object,
\* zero or not, in its place.
serialize(variant, msg, padding) ==
    [b \in 1..SizeOf(variant) |-> ObjectBytes(variant, msg, padding)[b]]

\* deserialize: memcpy(this, buffer, sizeof(*this)); the fields the object then has.
deserialize(variant, buffer) ==
    LET fields == {Layout(variant)[k].field : k \in DOMAIN Layout(variant)}
        entry(f) == Layout(variant)[CHOOSE k \in DOMAIN Layout(variant) :
                                        Layout(variant)[k].field = f]
    IN [f \in fields |->
          Decode(entry(f).kind, SubSeq(buffer, entry(f).offset + 1,
                                       entry(f).offset + entry(f).width))]

\* Field values the model draws messages from.
Zeroes(width) == [k \in 1..width |-> 0]
CharArray(chars, width) == [k \in 1..width |-> IF k <= Len(chars) THEN chars[k] ELSE 0]
OneAsDouble == <<0, 0, 0, 0, 0, 0, 240, 63>>        \* the bytes of the double 1.0
ZeroDatum == Zeroes(24)                              \* latitude, longitude, altitude all 0.0
SomeDatum == OneAsDouble \o Zeroes(8) \o OneAsDouble
ZeroPose == Zeroes(48)
SomePose == OneAsDouble \o OneAsDouble \o Zeroes(24) \o OneAsDouble
Timestamps == {0, 1700000000}
PaddingBytes == {0, 204}

MessagesOf(variant) ==
    CASE variant = "Discovery" ->
            [timestamp : Timestamps, join_time : {1700000000}, zero_ref : {ZeroDatum, SomeDatum},
             orchestrator : BOOLEAN, capability_index : {0, EngineCapability, MaxCapability}]
      [] variant = "Position" ->
            [timestamp : Timestamps, pose : {ZeroPose, SomePose}]
      [] variant = "Communication" ->
            [timestamp : Timestamps, transport_type : 0..3, serialization_type : {0, 4}]
      [] variant = "AgentMessage" ->
            [timestamp : Timestamps, public_key : {Zeroes(64)},
             uuid : {CharArray(<<88>>, 37), CharArray(<<80, 49>>, 37)},
             orchestrator : BOOLEAN, zero_ref : {ZeroDatum, SomeDatum},
             participant_uuids : {Zeroes(370)},
             capability_index : {0, MaxCapability}, medium : {1}, protocol : {NONE, MQTT},
             ipv6_addresses : {CharArray(<<58, 58, 49>>, 138)}, robot_id : {7},
             robot_name : {CharArray(<<114, 49>>, 32)}]

Variants == {"Discovery", "Position", "Communication", "AgentMessage"}

\* A message of some variant exists; nothing has been serialized.
InitCodec ==
    /\ program = "Codec" /\ net = NoNet
    /\ \E variant \in Variants :
         \E msg \in MessagesOf(variant), padding \in PaddingBytes :
            codec = [variant |-> variant, msg |-> msg, padding |-> padding, buffer |-> <<>>,
                     out |-> <<>>, pc |-> "ready"]
    /\ PolicyIdle /\ BucketIdle /\ RobotIdle /\ TransportIdle /\ AgentIdle /\ EngineIdle

CodecFrame == <<program, net, policyVars, bucketVars, robotVars, transportVars, agentVars, engineVars>>

\* msg.serialize(buffer.data())
CodecSerialize ==
    /\ program = "Codec" /\ codec.pc = "ready"
    /\ codec' = [codec EXCEPT !.buffer = serialize(codec.variant, codec.msg, codec.padding),
                              !.pc = "serialized"]
    /\ UNCHANGED CodecFrame

\* msg.deserialize(message.c_str())
CodecDeserialize ==
    /\ program = "Codec" /\ codec.pc = "serialized"
    /\ codec' = [codec EXCEPT !.out = deserialize(codec.variant, codec.buffer),
                              !.pc = "deserialized"]
    /\ UNCHANGED CodecFrame

NextCodec == CodecSerialize \/ CodecDeserialize

SpecCodec == InitCodec /\ [][NextCodec]_vars

----------------------------------------------------------------------------
(* The Agent of examples/aris.cpp on one capability: its receive callback     *)
(* hands every inbound payload to the Discovery, the Communication and the   *)
(* Position engine in turn, and a peer's engines multicast on the same group *)

\* The engines of the Agent, in the order the callback calls them.
ChannelEngines == <<"Discovery", "Communication", "Position">>

\* The callback registered at aris.cpp 46-51: the handler calls one inbound
\* payload causes, engine after engine.
RECURSIVE channel_callback(_, _, _, _)
channel_callback(engines, buffer, from, port) ==
    IF engines = <<>> THEN <<>>
    ELSE (IF transport_dispatch(Len(buffer), SizeOf(Head(engines)), "store") = "handled"
          THEN <<[engine |-> Head(engines), msg |-> deserialize(Head(engines), buffer),
                  address |-> from, port |-> port]>>
          ELSE <<>>)
         \o channel_callback(Tail(engines), buffer, from, port)

\* The handlers of aris.cpp 33-44: all_X_[address] = msg, each in its own table.
RECURSIVE store_calls(_, _, _)
store_calls(calls, engine, table) ==
    IF calls = <<>> THEN table
    ELSE store_calls(Tail(calls), engine,
                     IF Head(calls).engine = engine
                     THEN Put(table, Head(calls).address, Head(calls).msg)
                     ELSE table)

\* The Agent is constructed, with its three handlers and the callback set; a
\* peer holds a message of one of the three types.
InitChannel ==
    /\ program = "Channel" /\ net = NoNet
    /\ \E variant \in {ChannelEngines[k] : k \in DOMAIN ChannelEngines} :
         \E msg \in MessagesOf(variant), padding \in PaddingBytes :
            codec = [variant |-> variant, msg |-> msg, padding |-> padding, buffer |-> <<>>,
                     out |-> <<>>, pc |-> "ready"]
    /\ message_ = <<>> /\ interval_ = 0 /\ message_handler_ = "store_discovery"
    /\ all_discoveries_ = EmptyMap /\ owner_pc = "ready"
    /\ broadcast_args = NoArgs /\ observed = NotObserved /\ handler_log = NoHandlerLog
    /\ all_communication_ = EmptyMap /\ all_position_ = EmptyMap
    /\ PolicyIdle /\ BucketIdle /\ RobotIdle /\ TransportIdle /\ AgentIdle

channelRest ==
    <<program, net, policyVars, bucketVars, robotVars, transportVars, agentVars, message_, interval_,
      message_handler_, owner_pc, broadcast_args, observed>>

\* The peer's engine of the message's type sends it: send_message serializes
\* get_size() bytes and multicasts them.
ChannelSend ==
    /\ program = "Channel" /\ codec.pc = "ready"
    /\ codec' = [codec EXCEPT !.buffer = serialize(codec.variant, codec.msg, codec.padding),
                              !.pc = "sent"]
    /\ UNCHANGED <<handler_log, all_discoveries_, all_communication_, all_position_,
                   channelRest>>

\* The capability's receive thread calls the callback with the payload.
ChannelReceive(from, port) ==
    /\ program = "Channel" /\ codec.pc = "sent"
    /\ LET calls == channel_callback(ChannelEngines, codec.buffer, from, port)
       IN /\ handler_log' = [handler_log EXCEPT !.invoked = calls]
          /\ all_discoveries_' = store_calls(calls, "Discovery", all_discoveries_)
          /\ all_communication_' = store_calls(calls, "Communication", all_communication_)
          /\ all_position_' = store_calls(calls, "Position", all_position_)
    /\ codec' = [codec EXCEPT !.pc = "received"]
    /\ UNCHANGED channelRest

NextChannel ==
    \/ ChannelSend
    \/ \E from \in Addresses, port \in SourcePorts : ChannelReceive(from, port)

SpecChannel == InitChannel /\ [][NextChannel]_vars

----------------------------------------------------------------------------
(* Two ARISRobots on one multicast group.  Each runs discovery_loop at its   *)
(* own pace; what one hands to sendto is queued at the other's socket.  Both *)
(* are followed while they run: stop() is not called.                        *)

Participants == {"A", "B"}
Peer(r) == IF r = "A" THEN "B" ELSE "A"
NetCapability(r) == IF r = "A" THEN MaxCapability - 5 ELSE AgentCapability
NetListenDraw == ListenSecondsMin   \* both draw the shortest listen duration
SocketQueue == 1                    \* datagrams a socket holds unread; more are dropped
MaxAnnouncements == 3               \* announcements the model follows per participant

\* ARISRobot::ARISRobot and a successful start(), for one participant
NetRobotInit(r) ==
    [capability_index_ |-> NetCapability(r), chosen_protocol_ |-> NONE,
     known_robots_ |-> EmptyMap, tokens_ |-> TokenCap, elapsed |-> 0,
     pc |-> "entry", heard_network |-> FALSE,
     listen_duration |-> 0, listen_elapsed |-> 0,
     last_rx |-> "none", last_sent |-> NoMsg, announced |-> 0]

InitNetwork ==
    /\ program = "Network" /\ codec = NoCodec
    /\ net = [robot |-> [r \in Participants |-> NetRobotInit(r)],
              queue |-> [r \in Participants |-> <<>>]]
    /\ PolicyIdle /\ BucketIdle /\ RobotIdle /\ TransportIdle /\ AgentIdle /\ EngineIdle

NetworkFrame ==
    <<program, codec, policyVars, bucketVars, robotVars, transportVars, agentVars, engineVars>>

\* What recvfrom finds at r's socket, and what it leaves there.
NetInbound(r) ==
    IF net.queue[r] = <<>> THEN NoData
    ELSE [size |-> AgentMessageSize, msg |-> Head(net.queue[r])]
NetTaken(r) == IF net.queue[r] = <<>> THEN <<>> ELSE Tail(net.queue[r])

\* The socket queues after r handed msg to sendto (nothing when it sent none):
\* the datagram reaches the other member of the group unless its queue is full.
NetDelivered(queue, r, msg) ==
    IF msg = NoMsg \/ Len(queue[Peer(r)]) >= SocketQueue THEN queue
    ELSE [queue EXCEPT ![Peer(r)] = Append(@, msg)]

\* One step of r's discovery thread: the participant it leaves.
NetStepOf(r, next) ==
    /\ program = "Network"
    /\ net' = [net EXCEPT !.robot[r] = next.robot, !.queue = next.queue]
    /\ UNCHANGED NetworkFrame

\* dis(gen); listen_start = now; heard_network = false;
NetLoopEntry(r) ==
    LET s == net.robot[r]
    IN /\ s.pc = "entry"
       /\ NetStepOf(r, [robot |-> [s EXCEPT !.listen_duration = NetListenDraw,
                                            !.listen_elapsed = 0, !.pc = "listen"],
                        queue |-> net.queue])

\* One pass of the listen loop, its test included.
NetListen(r, d) ==
    LET s == net.robot[r]
        m == receive_message("open", NetInbound(r), r, s.capability_index_,
                             s.chosen_protocol_, s.known_robots_)
        u == update_tokens(s.tokens_, s.elapsed)
    IN /\ s.pc = "listen"
       /\ NetStepOf(r,
            IF s.listen_elapsed >= s.listen_duration * 1000
            THEN [robot |-> [s EXCEPT !.pc = "after_listen"], queue |-> net.queue]
            ELSE IF m.ret
            THEN [robot |-> [s EXCEPT !.chosen_protocol_ = m.chosen,
                                      !.known_robots_ = m.known, !.last_rx = m.path,
                                      !.heard_network = TRUE, !.pc = "after_listen"],
                  queue |-> [net.queue EXCEPT ![r] = NetTaken(r)]]
            ELSE [robot |-> [s EXCEPT !.last_rx = m.path, !.tokens_ = u.tokens,
                                      !.elapsed = u.elapsed + d,
                                      !.listen_elapsed = @ + d],
                  queue |-> [net.queue EXCEPT ![r] = NetTaken(r)]])

\* The step after the listen loop, entering the election without selecting.
NetAfterListenUnselected(r) ==
    LET s == net.robot[r]
    IN /\ s.pc = "after_listen"
       /\ NetStepOf(r, [robot |-> [s EXCEPT !.pc = IF ~s.heard_network THEN "elect"
                                                   ELSE "steady"],
                        queue |-> net.queue])

\* if (!heard_network) { chosen_protocol_ = select_protocol(); ... }
NetAfterListen(r) ==
    LET s == net.robot[r]
    IN /\ s.pc = "after_listen"
       /\ NetStepOf(r,
            [robot |-> IF ~s.heard_network
                       THEN [s EXCEPT !.chosen_protocol_ = select_protocol(s.capability_index_),
                                      !.pc = "elect"]
                       ELSE [s EXCEPT !.pc = "steady"],
             queue |-> net.queue])

\* while (running_ && known_robots_.empty())
NetElectTest(r) ==
    LET s == net.robot[r]
    IN /\ s.pc = "elect"
       /\ NetStepOf(r, [robot |-> [s EXCEPT !.pc = IF s.known_robots_ = EmptyMap
                                                   THEN "elect_body" ELSE "steady"],
                        queue |-> net.queue])

\* if (consume_tokens(cost)) { send_agent_message(); }  then the burst starts
NetAnnounce(r, at, cost, next) ==
    LET s == net.robot[r]
        msg == IF consume_ok(s.tokens_, cost)
               THEN send_agent_message("open", r, s.capability_index_, s.chosen_protocol_)
               ELSE NoMsg
    IN /\ s.pc = at
       /\ s.announced < MaxAnnouncements
       /\ NetStepOf(r, [robot |-> [s EXCEPT !.tokens_ = consume_tokens(s.tokens_, cost),
                                            !.last_sent = msg, !.pc = next,
                                            !.announced = @ + 1],
                        queue |-> NetDelivered(net.queue, r, msg)])

NetElectAnnounce(r) == NetAnnounce(r, "elect_body", ElectCost, "elect_burst")
NetSteadyAnnounce(r) == NetAnnounce(r, "steady", SteadyCost, "steady_burst")

\* The passes of  for (int i = 0; i < n && running_; i++) { receive_message();
\* update_tokens(); sleep_for(100ms); }  from one pass on: the participant and
\* the socket queue they leave.
RECURSIVE burst_passes(_, _, _, _, _, _)
burst_passes(r, s, queue, pass, n, d) ==
    IF pass >= n THEN [robot |-> s, queue |-> queue]
    ELSE LET m == receive_message("open",
                                  IF queue = <<>> THEN NoData
                                  ELSE [size |-> AgentMessageSize, msg |-> Head(queue)],
                                  r, s.capability_index_, s.chosen_protocol_, s.known_robots_)
             u == update_tokens(s.tokens_, s.elapsed)
         IN burst_passes(r,
                         [s EXCEPT !.chosen_protocol_ = m.chosen, !.known_robots_ = m.known,
                                   !.last_rx = IF m.path = "nodata" THEN @ ELSE m.path,
                                   !.tokens_ = u.tokens, !.elapsed = u.elapsed + d,
                                   !.last_sent = NoMsg],
                         IF queue = <<>> THEN <<>> ELSE Tail(queue), pass + 1, n, d)

\* A whole burst of r.  The datagrams queued at its socket when the burst
\* starts are read by its first passes; one that arrives later is left to the
\* next burst, which reads it the same way.
NetBurst(r, at, n, out, d) ==
    LET s == net.robot[r]
        b == burst_passes(r, [s EXCEPT !.last_rx = "nodata"], net.queue[r], 0, n, d)
    IN /\ s.pc = at
       /\ NetStepOf(r, [robot |-> [b.robot EXCEPT !.pc = out],
                        queue |-> [net.queue EXCEPT ![r] = b.queue]])

NetElectBurst(r, d) == NetBurst(r, "elect_burst", ElectBurst, "elect", d)
NetSteadyBurst(r, d) == NetBurst(r, "steady_burst", SteadyBurst, "steady", d)

NextNetwork ==
    \E r \in Participants :
        \/ NetLoopEntry(r)
        \/ \E d \in SleepChoices : NetListen(r, d)
        \/ NetAfterListen(r)
        \/ NetElectTest(r)
        \/ NetElectAnnounce(r)
        \/ \E d \in SleepChoices : NetElectBurst(r, d)
        \/ NetSteadyAnnounce(r)
        \/ \E d \in SleepChoices : NetSteadyBurst(r, d)

SpecNetwork == InitNetwork /\ [][NextNetwork]_vars

----------------------------------------------------------------------------
(* Cancellation: ARISRobot and the Agent's Transport, with their threads    *)
(* scheduled fairly                                                         *)

\* Cancellation does not depend on the capability: the ARISRobot followed here
\* is the one of the default capability.
InitCancel == (InitRobot /\ capability_index_ = AgentCapability) \/ InitAgent

NextCancel == NextRobot \/ NextAgent

\* The steps of ARISRobot::discovery_loop, of ARISRobot::stop once it was
\* called, of Transport::message_loop and of Transport::stop once it was called.
DiscoveryThreadStep ==
    \/ LoopEntry
    \/ ListenTest
    \/ \E in \in Inbound, d \in SleepChoices : ListenBody(in, d)
    \/ AfterListen
    \/ ElectTest
    \/ ElectAnnounce
    \/ ElectBurstTest
    \/ \E in \in Inbound, d \in SleepChoices : ElectBurstBody(in, d)
    \/ SteadyTest
    \/ SteadyAnnounce
    \/ SteadyBurstTest
    \/ \E in \in Inbound, d \in SleepChoices : SteadyBurstBody(in, d)

RobotStopStep == RobotStopClose \/ RobotStopJoin

TimerThreadStep ==
    \/ AgentTimerEntry
    \/ AgentTimerTest
    \/ AgentTimerBody
    \/ \E d \in SleepChoices : AgentTimerSleep(d)

\* Every thread that can run is scheduled in the end, and a call of stop() that
\* has begun goes on.
SpecCancel ==
    /\ InitCancel /\ [][NextCancel]_vars
    /\ WF_vars(DiscoveryThreadStep) /\ WF_vars(RobotStopStep)
    /\ WF_vars(TimerThreadStep) /\ WF_vars(AgentStopJoin)

\* One ARISRobot of the default capability whose discovery thread, and whose
\* stop() once called, are scheduled in the end.
InitElecting == InitRobot /\ capability_index_ = AgentCapability

SpecElecting ==
    /\ InitElecting /\ [][NextRobot]_vars
    /\ WF_vars(DiscoveryThreadStep) /\ WF_vars(RobotStopStep)

\* The ARIS loop, in which the bucket is refilled faster than the loop spends,
\* and the bucket on its own, which callers may drain.
InitTokenGate == InitRobot \/ InitBucket

NextTokenGate == NextRobot \/ NextBucket

SpecTokenGate == InitTokenGate /\ [][NextTokenGate]_vars

----------------------------------------------------------------------------
(* All participants: a behaviour is a behaviour of one of them              *)

Init == InitRobot \/ InitAris \/ InitAgent \/ InitEngine

Next == NextRobot \/ NextAris \/ NextAgent \/ NextEngine

Spec == Init /\ [][Next]_vars

----------------------------------------------------------------------------
(* Properties                                                               *)

\* The reference predicate the policy is documented to equal.
ReferenceShare(a, b) == Max(a, b) >= 90 \/ Min(a, b) >= 25

\* An inbound step left the participant's own table entry as it was.
SelfRobotEntryKept == known_robots_' = known_robots_ /\ last_rx' # "accepted"

\* C1: a participant with local identity X never inserts or updates peer-table
\* entry X because of an inbound message that declares identity X, whatever
\* arrives and in whatever state: for ARISRobot (receive_message in each of the
\* loop's three receive places), for Aris (handle_incoming_message) and for the
\* Agent keyed by the declared ipv6 (handle_discovery_message).
C1_SelfFilter ==
    [][/\ \A in \in Payloads, d \in SleepChoices :
            (in.size = AgentMessageSize /\ in.msg.uuid = Self
             /\ (ListenBody(in, d) \/ ElectBurstBody(in, d) \/ SteadyBurstBody(in, d)))
                => SelfRobotEntryKept
       /\ \A in \in ArisPayloads, from \in Addresses :
            (in.size = ArisMessageSize /\ in.msg.uuid = Self /\ ArisHandleIncoming(in, from))
                => SelfRobotEntryKept
       /\ \A in \in DiscoveryPayloads, from \in Addresses :
            (in.size = DiscoverySize /\ in.msg.ipv6 = OwnAddress
             /\ AgentHandleIncoming(in, from))
                => known_agents_' = known_agents_]_vars

\* C2: the self-record of the Agent was created with join_time = T0 (the wall
\* clock at construction); once send_discovery has been called, the broadcast
\* message it produced, and every message the timer then sends, carries
\* join_time = T0, however many refreshes and handled inbound messages there were.
C2_JoinTimeImmutable ==
    (program = "Agent" /\ refreshes > 0) =>
        /\ broadcast_message_[1].join_time = wall_at_start
        /\ wire # <<>> => wire[1].join_time = wall_at_start

\* C3: whenever a participant has decided about the other one, its decision is
\* the reference predicate (max >= 90 or min >= 25) of the two capabilities, for
\* all capabilities in 0..100; (25, 25) is accepted and (24, 25) is rejected.
C3_SharingPolicyResult ==
    /\ \A p \in {"P", "Q"} :
          decision[p] # "undecided" =>
              decision[p] = Verdict(ReferenceShare(cap[p], cap[Other(p)]))
    /\ (cap["P"] = 25 /\ cap["Q"] = 25 /\ decision["P"] # "undecided") => decision["P"] = "accept"
    /\ (cap["P"] = 24 /\ cap["Q"] = 25 /\ decision["P"] # "undecided") => decision["P"] = "reject"

C3_Witness == cap["P"] = 24 /\ cap["Q"] = 25 /\ decision["P"] = "reject" /\ decision["Q"] = "reject"

\* C4: two participants that have both decided about each other have reached
\* the same decision, whatever their capabilities in 0..100.
C4_SharingPolicySymmetry ==
    (decision["P"] # "undecided" /\ decision["Q"] # "undecided") => decision["P"] = decision["Q"]

C4_Witness ==
    cap["P"] = 95 /\ cap["Q"] = 10 /\ decision["P"] = "accept" /\ decision["Q"] = "accept"

\* C5: when a participant with capability a has accepted a peer with capability
\* b, the gate also accepts that peer for every local capability a' with
\* a <= a' <= 100.
C5_SharingPolicyMonotone ==
    \A p \in {"P", "Q"} :
        decision[p] = "accept" =>
            \A a2 \in cap[p]..MaxCapability : should_share_info_with(a2, cap[Other(p)])

C5_Witness == cap["P"] = 25 /\ cap["Q"] = 30 /\ decision["P"] = "accept"

\* C6: starting from 1000 tokens, after any sequence of refills and
\* consumptions the bucket never holds more than 1000 tokens.
C6_TokensBounded == tokens_ <= TokenCap

C6_Witness ==
    program = "Bucket" /\ last_refill > 0 /\ tokens_ = TokenCap /\ last_refill > ElectCost

\* C7: a consume_tokens(n) call with n <= tokens returns true and leaves
\* tokens - n; with n > tokens it returns false and leaves tokens as they were.
C7_TokenConsumption ==
    last_consume # NoConsume =>
        IF last_consume.count <= last_consume.before
        THEN last_consume.ok /\ tokens_ = last_consume.before - last_consume.count
        ELSE ~last_consume.ok /\ tokens_ = last_consume.before

C7_Witness ==
    /\ program = "Bucket" /\ last_consume # NoConsume
    /\ last_consume.count > last_consume.before /\ tokens_ = last_consume.before

\* A receive step of ARISRobot that met a datagram of the wrong length left the
\* peer table, the chosen protocol and the loop's course as they were.
RobotDiscarded ==
    /\ UNCHANGED <<known_robots_, chosen_protocol_, heard_network>>
    /\ last_rx' = "badsize"

\* C8: an inbound payload whose length differs from the fixed size of the bound
\* message type reaches no handler and changes neither the engine nor the peer
\* table, and the receive step ends normally: for impulse::Transport, for
\* ARISRobot::receive_message, for Aris and for the Agent's transport.
C8_DiscardMalformed ==
    [][/\ \A in \in PackedPayloads, from \in Addresses :
            (in.size # PackedDiscoverySize /\ EngineHandleIncoming(in, from))
                => /\ last_dispatch' = "badsize"
                   /\ UNCHANGED <<all_discoveries_, message_, interval_, message_handler_,
                                  continuous_, transport_running_>>
       /\ \A in \in Payloads, d \in SleepChoices :
            (multicast_fd_ = "open" /\ in.size # AgentMessageSize)
                => /\ ListenBody(in, d) => (RobotDiscarded /\ pc' = "listen")
                   /\ ElectBurstBody(in, d) => RobotDiscarded
                   /\ SteadyBurstBody(in, d) => RobotDiscarded
       /\ \A in \in ArisPayloads, from \in Addresses :
            (in.size # ArisMessageSize /\ ArisHandleIncoming(in, from))
                => (known_robots_' = known_robots_ /\ last_rx' = "badsize")
       /\ \A in \in DiscoveryPayloads, from \in Addresses :
            (in.size # DiscoverySize /\ AgentHandleIncoming(in, from))
                => /\ last_dispatch' = "badsize"
                   /\ UNCHANGED <<known_agents_, broadcast_message_>>]_vars

C8_Witness ==
    /\ program = "Engine" /\ last_dispatch = "badsize" /\ message_handler_ = "store_discovery"
    /\ DOMAIN all_discoveries_ = {OwnAddress}

C10_JoinTimeNotAfterTimestamp ==
    (program = "Engine" /\ owner_pc \in {"set_callback", "running", "status", "join", "destroyed"}) =>
        /\ message_.join_time <= message_.timestamp
        /\ wire # <<>> => wire[1].join_time <= wire[1].timestamp

\* new is old with key k bound to v and nothing else touched.
Upserted(old, new, k, v) ==
    /\ DOMAIN new = DOMAIN old \cup {k}
    /\ new[k] = v
    /\ \A x \in DOMAIN old \ {k} : new[x] = old[x]

\* C11: when an inbound message for peer key k passes the sharing policy, the
\* receive step leaves table[k] equal to the message in every field (join_time
\* included, whatever record k had) and leaves every other entry as it was.
C11_UpsertOnAcceptance ==
    [][/\ \A in \in GatedDiscoveryPayloads, from \in Addresses :
            (/\ program = "AgentV1"
             /\ in.size = DiscoverySize
             /\ should_share_info_with(capability_index_, in.msg.capability_index)
             /\ AgentV1HandleIncoming(in, from))
                => Upserted(known_agents_, known_agents_', in.msg.ipv6, in.msg)
       /\ \A in \in Inbound, d \in SleepChoices :
            (/\ program = "ARISRobot"
             /\ recvfrom(multicast_fd_, in) = AgentMessageSize
             /\ in.msg.uuid # Self
             /\ should_share_info_with(capability_index_, in.msg.capability_index)
             /\ ListenBody(in, d) \/ ElectBurstBody(in, d) \/ SteadyBurstBody(in, d))
                => Upserted(known_robots_, known_robots_', in.msg.uuid, in.msg)]_vars

\* An accepted message has replaced the record the agent stored for its own
\* address at start, next to a peer's record.
C11_Witness ==
    /\ program = "AgentV1" /\ last_rx = "accepted"
    /\ OwnAddress \in DOMAIN known_agents_ /\ PeerAddress \in DOMAIN known_agents_
    /\ known_agents_[OwnAddress].join_time \in PeerJoinTimes

\* The payload holds a peer's announcement that the sharing policy turns down.
RejectedByPolicy(in) ==
    /\ recvfrom(multicast_fd_, in) = AgentMessageSize
    /\ in.msg.uuid # Self
    /\ ~should_share_info_with(capability_index_, in.msg.capability_index)

\* C12: a receive step whose message fails the sharing policy leaves the peer
\* table, the chosen protocol and the phase of the discovery loop as a step
\* that received nothing would: a listening participant goes on listening.
C12_RejectionIgnored ==
    [][\A in \in Inbound, d \in SleepChoices :
          (/\ ListenBody(in, d) \/ ElectBurstBody(in, d) \/ SteadyBurstBody(in, d)
           /\ RejectedByPolicy(in))
              => /\ known_robots_' = known_robots_
                 /\ chosen_protocol_' = chosen_protocol_
                 /\ heard_network' = heard_network
                 /\ pc = "listen_body" => pc' = "listen"]_vars

\* Positions of the discovery loop after the participant elected itself.
ElectedAlone ==
    /\ program = "ARISRobot" /\ ~heard_network
    /\ pc \in {"elect", "elect_body", "elect_burst", "elect_burst_body",
               "steady", "steady_body", "steady_burst", "steady_burst_body"}

\* C13: a participant whose listen window ended without a peer heard runs on
\* the protocol its own capability selects: DDS_RTPS from 90, ZENOH from 60 to
\* 89, MQTT below 60.
C13_ElectionByCapability ==
    ElectedAlone =>
        /\ capability_index_ \in 90..MaxCapability => chosen_protocol_ = DDS_RTPS
        /\ capability_index_ \in 60..89 => chosen_protocol_ = ZENOH
        /\ capability_index_ \in 0..59 => chosen_protocol_ = MQTT

\* A participant of capability 55 announces alone, on MQTT.
C13_Witness ==
    /\ ElectedAlone /\ pc = "elect_burst"
    /\ capability_index_ = 55 /\ chosen_protocol_ = MQTT
    /\ known_robots_ = EmptyMap

\* The owner is inside set_broadcast: interval_ written, message_ not yet.
InSetBroadcast == program = "Engine" /\ owner_pc \in {"set_continuous", "set_message"}

\* C14: the timer thread's reads of the broadcast fields and set_broadcast's
\* writes of them exclude each other: no pass of the timer that finds the
\* engine armed, and so reads interval_ and message_, runs while the owner is
\* part-way through set_broadcast.
C14_BroadcastFieldsExclusive ==
    [][(EngineTimerBody /\ continuous_) => ~InSetBroadcast]_vars

\* The owner thread is walking the whole table of the example Agent.
InStatusRead == program = "Engine" /\ owner_pc = "status"

\* C15: reads and writes of the peer table exclude each other: while a
\* whole-table read is under way no step of another thread changes the table.
C15_TableAccessExclusive ==
    [][InStatusRead => all_discoveries_' = all_discoveries_]_vars

\* C16: the participant is stopped before its interface is, and the
\* interface's receive thread never runs the receive callback on a participant
\* that has been stopped or destroyed.
C16_NoCallbackAfterStop ==
    [][\A in \in ArisPayloads, from \in Addresses :
          (\/ ArisHandleIncoming(in, from)
           \/ \E outcome \in DanglingOutcomes : ArisCallbackOnDestroyed(in, from, outcome))
              => main_pc \notin {"stopped", "destroyed"}]_vars

\* Positions inside an iteration that ends with a sleep.
RobotIterationPcs == {"listen_body", "elect_burst_body", "steady_burst_body"}
TimerIterationPcs == {"body", "sleep"}

\* stop() has been called and has not returned yet.
RobotStopCalled == program = "ARISRobot" /\ main_pc \in {"stop_close", "stop_join"}
AgentStopCalled == program = "Agent" /\ ~transport_running_ /\ timer_pc # "joined"

WindowStarts == {w \in 0..(CadenceHorizonMs - WindowMs) : w % (SleepMs \div 2) = 0}

\* The messages the observer saw in the window of one second that starts at w.
SeenInWindow(w) ==
    {k \in DOMAIN observed.sent : w <= observed.sent[k].at /\ observed.sent[k].at < w + WindowMs}

\* C18: an engine armed with an interval of 200 ms, ticking every 100 ms with
\* at most one tick of lateness, sends between 4 and 6 messages in every whole
\* window of one second after it was armed, and every message it sends has a
\* timestamp greater than the one before.
C18_BroadcastCadence ==
    (program = "Cadence" /\ observed.armed_at >= 0) =>
        /\ \A w \in WindowStarts :
              (observed.armed_at <= w /\ w + WindowMs <= uptime_ms)
                  => Cardinality(SeenInWindow(w)) \in 4..6
        /\ \A k \in 2..Len(observed.sent) :
              observed.sent[k].timestamp > observed.sent[k - 1].timestamp

\* The observer has watched an armed engine for more than a second, one sleep
\* of which returned a whole tick late.
C18_Witness ==
    /\ program = "Cadence" /\ observed.armed_at >= 0
    /\ observed.armed_at + WindowMs <= uptime_ms
    /\ observed.late_ms = MaxLateMs
    /\ Len(observed.sent) >= 5

\* The owner is between calls and the engine is not armed: the constructor or
\* unset_broadcast() has returned and set_broadcast has not been called since.
Disarmed == program = "Broadcast" /\ owner_pc = "ready" /\ ~continuous_

\* C19: after unset_broadcast() has returned the engine emits no periodic
\* broadcast until set_broadcast is called again, unset_broadcast leaves the
\* registered handler as it was, and a well-formed inbound message is still
\* dispatched to the handler while the engine is disarmed.
C19_UnsetDisarms ==
    /\ [][BroadcastTimerSend => ~Disarmed]_vars
    /\ [][BroadcastUnset => message_handler_' = message_handler_]_vars
    /\ [][\A in \in BroadcastPayloads, from \in Addresses :
            (/\ Disarmed
             /\ message_handler_ # "none"
             /\ in.size = PackedDiscoverySize
             /\ BroadcastHandleIncoming(in, from))
                => (last_dispatch' = "handled" /\ all_discoveries_'[from] = in.msg)]_vars

SameApartFromTimestamp(a, b) ==
    a.join_time = b.join_time /\ a.capability_index = b.capability_index

\* set_broadcast has been called and has returned, and no call is under way.
BroadcastReturned == program = "Broadcast" /\ owner_pc = "ready" /\ broadcast_args # NoArgs

\* C20: when set_broadcast(m, i) returns the engine is armed with payload m and
\* interval i whatever it held before (so a second call with the same arguments
\* leaves what the first left); between calls the engine keeps i and m's
\* fields apart from the timestamp; and every periodic send made after the call
\* returned carries m's fields apart from the timestamp.
C20_SetBroadcastReplaces ==
    /\ [][BroadcastSetMessage =>
            (/\ interval_' = broadcast_args.interval
             /\ continuous_'
             /\ message_' = broadcast_args.message)]_vars
    /\ [](BroadcastReturned =>
            (/\ interval_ = broadcast_args.interval
             /\ SameApartFromTimestamp(message_, broadcast_args.message)))
    /\ [][(BroadcastReturned /\ BroadcastTimerSend) =>
            SameApartFromTimestamp(wire'[1], broadcast_args.message)]_vars

\* A broadcast goes out under the second arming: the pass that sent it saw an
\* interval short enough to fire within the horizon, the engine now holds the
\* long interval and the other payload.
C20_Witness ==
    /\ BroadcastReturned /\ continuous_
    /\ broadcast_args.interval = BroadcastIntervalMs
    /\ broadcast_args.message.capability_index = AgentCapability
    /\ interval_ = BroadcastIntervalMs
    /\ wire # <<>> /\ wire[1].capability_index = AgentCapability


\* C21: set_message_handler replaces: an inbound payload of the message
\* type's size makes exactly one handler call, to the handler registered last,
\* with the deserialized message and the sender's address and port; no handler
\* registered earlier and since replaced is called, and the handler's effect is
\* applied once.
C21_HandlerReplaces ==
    [][\A in \in PackedPayloads, from \in Addresses, port \in SourcePorts :
         (/\ program = "Handlers"
          /\ in.size = PackedDiscoverySize
          /\ handler_log.registered # <<>>
          /\ HandlersHandleIncoming(in, from, port))
            => /\ handler_log'.invoked =
                    <<[handler |-> handler_log.registered[Len(handler_log.registered)],
                       msg |-> in.msg, address |-> from, port |-> port]>>
               /\ all_discoveries_' =
                    IF handler_log.registered[Len(handler_log.registered)] = "store_discovery"
                    THEN Put(all_discoveries_, from, in.msg)
                    ELSE all_discoveries_]_vars

\* A payload was dispatched after the handler had been replaced by a different one.
C21_Witness ==
    /\ program = "Handlers"
    /\ Len(handler_log.registered) >= 2
    /\ handler_log.registered[1] # handler_log.registered[Len(handler_log.registered)]
    /\ Len(handler_log.invoked) = 1
    /\ handler_log.invoked[1].handler = message_handler_


\* C22: no expiry: a key present in a participant's peer table (known_robots_
\* of ARISRobot and Aris, known_agents_ of the Agent, all_discoveries_ of the
\* example's Agent) is present after every step; the set of keys only grows.
C22_NoExpiry ==
    [][/\ DOMAIN known_robots_ \subseteq DOMAIN known_robots_'
       /\ DOMAIN known_agents_ \subseteq DOMAIN known_agents_'
       /\ DOMAIN all_discoveries_ \subseteq DOMAIN all_discoveries_']_vars

\* A table that has grown twice and has since seen its first peer again.
C22_Witness ==
    /\ program = "ARISRobot"
    /\ {"P1", "P2"} \subseteq DOMAIN known_robots_
    /\ last_rx = "accepted"
    /\ pc = "steady_burst"


\* C23: round trip: for each message variant (Discovery, Position,
\* Communication, AgentMessage) and each message drawn, capability_index 0 and
\* 100 and zeroed geographic fields included, the message deserialize makes of
\* the buffer serialize filled equals the original field for field, and the
\* buffer has the variant's size.
C23_RoundTrip ==
    (program = "Codec" /\ codec.pc = "deserialized") =>
        /\ Len(codec.buffer) = SizeOf(codec.variant)
        /\ DOMAIN codec.out = DOMAIN codec.msg
        /\ \A f \in DOMAIN codec.msg : codec.out[f] = codec.msg[f]

\* An AgentMessage that advertises no protocol and capability 0 from the origin
\* has made the round trip.
C23_Witness ==
    /\ program = "Codec" /\ codec.pc = "deserialized" /\ codec.variant = "AgentMessage"
    /\ codec.out.protocol = NONE /\ codec.out.capability_index = 0
    /\ codec.out.zero_ref = ZeroDatum /\ codec.padding # 0


\* The phases of ARISRobot::discovery_loop, by the thread's position: the listen
\* loop and the decision after it, the election loop, the steady loop.
ListeningPcs == {"entry", "listen", "listen_body", "after_listen"}
ElectingPcs == {"elect", "elect_body", "elect_burst", "elect_burst_body"}
SteadyPcs == {"steady", "steady_body", "steady_burst", "steady_burst_body"}
PhaseRank(p) ==
    IF p \in ListeningPcs THEN 1
    ELSE IF p \in ElectingPcs THEN 2
    ELSE IF p \in SteadyPcs THEN 3
    ELSE IF p = "done" THEN 4
    ELSE 0

\* C24: phase order: the loop's phase only advances, LISTENING, then ELECTING
\* (nothing heard) or directly on (a peer heard, JOINING), then STEADY; no step
\* returns to an earlier phase, LISTENING is left for ELECTING or STEADY unless
\* stop() has been called, and STEADY is left only after stop() has cleared
\* running_.
C24_PhaseOrder ==
    [][program = "ARISRobot" =>
        /\ PhaseRank(pc') >= PhaseRank(pc)
        /\ (pc \in ListeningPcs /\ pc' \notin ListeningPcs) =>
              (pc' \in ElectingPcs \cup SteadyPcs \/ (pc' = "done" /\ ~running_))
        /\ (pc \in ElectingPcs /\ pc' \notin ElectingPcs) => pc' \in SteadyPcs
        /\ (pc \in SteadyPcs /\ pc' \notin SteadyPcs) => (pc' = "done" /\ ~running_)]_vars

\* A participant that went through ELECTING and found a peer there is in STEADY
\* and has announced.
C24_Witness ==
    /\ program = "ARISRobot" /\ running_
    /\ pc = "steady_burst" /\ ~heard_network /\ known_robots_ # EmptyMap
    /\ last_consume.count = SteadyCost /\ last_consume.ok


\* C25: election versus joining: ELECTING is entered only by a participant that
\* heard no peer message while LISTENING, and it self-selects then; the step of
\* the listen loop that hears the first peer message leaves as chosen_protocol_
\* the protocol that message advertises, and a participant that has heard a
\* peer goes on to STEADY with that protocol, without self-selection and
\* without ever being in ELECTING.
C25_ElectionOrJoining ==
    /\ [][(program = "ARISRobot" /\ pc \notin ElectingPcs /\ pc' \in ElectingPcs) =>
            (/\ ~heard_network
             /\ last_rx \notin {"accepted", "rejected"}
             /\ chosen_protocol_' = select_protocol(capability_index_))]_vars
    /\ [][\A in \in Inbound, d \in SleepChoices :
            (/\ program = "ARISRobot" /\ pc = "listen_body"
             /\ ListenBody(in, d)
             /\ heard_network')
                => (in.msg.uuid # Self /\ chosen_protocol_' = in.msg.protocol)]_vars
    /\ [][(program = "ARISRobot" /\ heard_network /\ AfterListen) =>
            (chosen_protocol_' = chosen_protocol_ /\ pc' \in {"steady", "done"})]_vars
    /\ []((program = "ARISRobot" /\ heard_network) => pc \notin ElectingPcs)

\* A participant whose own choice would have been another protocol has joined
\* under the protocol it heard.
C25_Witness ==
    /\ program = "ARISRobot" /\ running_
    /\ pc = "steady" /\ heard_network
    /\ chosen_protocol_ = MQTT
    /\ select_protocol(capability_index_) = DDS_RTPS


\* The shape of ELECTING: it is left only for STEADY, and only when the peer
\* table is no longer empty or stop() has cleared running_; each cycle makes
\* one announce attempt that costs ElectCost tokens and sends only if they
\* were there, then a burst of at most ElectBurst receives.
ElectingCycles ==
    /\ [][(program = "ARISRobot" /\ pc \in ElectingPcs /\ pc' \notin ElectingPcs) =>
            (pc' = "steady" /\ (known_robots_ # EmptyMap \/ ~running_))]_vars
    /\ [][(program = "ARISRobot" /\ pc = "elect_body" /\ pc' # pc) =>
            (/\ pc' = "elect_burst"
             /\ last_consume'.count = ElectCost
             /\ (last_sent' # NoMsg => last_consume'.ok))]_vars
    /\ [][(program = "ARISRobot" /\ pc = "elect_burst" /\ pc' # pc) =>
            pc' \in {"elect_burst_body", "elect"}]_vars
    /\ []((program = "ARISRobot" /\ pc = "elect_burst_body") => i < ElectBurst)

\* An announcement of another participant has just been received: a datagram
\* of the right size under another uuid, whatever the sharing policy said.
PeerAnnouncementReceived == last_rx \in {"accepted", "rejected"}

\* C26 as stated: a participant in ELECTING stays there, alternating announce
\* attempts and receive bursts, while no peer is discovered, and once the
\* announcement of another peer has been received it is in STEADY in the end.
C26_LeavingElectingOnReceipt ==
    /\ ElectingCycles
    /\ (program = "ARISRobot" /\ pc \in ElectingPcs /\ PeerAnnouncementReceived)
          ~> (pc \in SteadyPcs)

\* C26: a participant in ELECTING stays there, alternating token-gated
\* announce attempts and receive bursts, while its peer table is empty, and
\* once the announcement of another peer has been received and accepted into
\* the peer table it is in STEADY in the end.
C26_LeavingElecting ==
    /\ ElectingCycles
    /\ (program = "ARISRobot" /\ pc \in ElectingPcs /\ known_robots_ # EmptyMap)
          ~> (pc \in SteadyPcs)

\* A participant that elected itself has found a peer and left ELECTING when
\* the burst was over.
C26_Witness ==
    /\ program = "ARISRobot" /\ running_
    /\ pc = "steady" /\ ~heard_network
    /\ DOMAIN known_robots_ = {"P1"}
    /\ last_rx = "nodata"


\* The cost of the announce attempt made at a position of the loop.
AnnounceCost(p) == IF p = "elect_body" THEN ElectCost ELSE SteadyCost

\* C27: token-gated announcing: an announcement leaves the ARIS loop only in
\* an announce step whose consume_tokens call found its cost (30 in ELECTING,
\* 10 in STEADY) and took it; an announce step that finds fewer tokens sends
\* nothing and goes on to the receive burst with tokens unchanged; a
\* consume_tokens call for more than the bucket holds returns false and leaves
\* the tokens as they were; and after the burst the running loop comes back to
\* its announce step.
C27_TokenGatedAnnounce ==
    /\ [][(program = "ARISRobot" /\ last_sent' # NoMsg /\ last_sent' # last_sent) =>
            (/\ pc \in {"elect_body", "steady_body"}
             /\ tokens_ >= AnnounceCost(pc)
             /\ tokens_' = tokens_ - AnnounceCost(pc)
             /\ last_consume' = [count |-> AnnounceCost(pc), before |-> tokens_, ok |-> TRUE])]_vars
    /\ [][(program = "ARISRobot" /\ pc \in {"elect_body", "steady_body"} /\ pc' # pc) =>
            (/\ pc' \in {"elect_burst", "steady_burst"}
             /\ last_consume'.count = AnnounceCost(pc)
             /\ (tokens_ < AnnounceCost(pc) => (tokens_' = tokens_ /\ last_sent' = NoMsg)))]_vars
    /\ [][\A count \in ConsumeChoices :
            (program = "Bucket" /\ tokens_ < count /\ ConsumeTokens(count)) =>
                (tokens_' = tokens_ /\ ~last_consume'.ok)]_vars
    /\ [][(program = "ARISRobot" /\ pc \in {"elect_burst", "steady_burst"} /\ pc' # pc) =>
            pc' \in {"elect_burst_body", "steady_burst_body", "elect", "steady"}]_vars
    /\ [][(program = "ARISRobot" /\ pc = "steady" /\ pc' # pc /\ running_) =>
            pc' = "steady_body"]_vars

\* An electing participant has paid for and sent its announcement.
C27_Witness ==
    /\ program = "ARISRobot" /\ pc = "elect_burst"
    /\ last_consume = [count |-> ElectCost, before |-> TokenCap, ok |-> TRUE]
    /\ tokens_ = TokenCap - ElectCost
    /\ last_sent.uuid = Self /\ last_sent.protocol = select_protocol(capability_index_)


\* The listen phase of Aris::discovery_loop.
ArisListeningPcs == {"entry", "listen", "listen_sleep", "after_listen"}

\* C28: passive listening: a participant (ARISRobot, Aris) that is in LISTENING
\* has sent no announcement and, for ARISRobot, has asked the bucket for no
\* tokens; an announcement is sent only by the announce step of a loop that
\* comes after the listen phase.
C28_PassiveListening ==
    /\ []((program = "ARISRobot" /\ pc \in ListeningPcs \cup {"not_started"}) =>
            (last_sent = NoMsg /\ last_consume = NoConsume /\ tokens_ = TokenCap))
    /\ []((program = "Aris" /\ pc \in ArisListeningPcs \cup {"not_started"}) =>
            last_sent = NoArisMsg)
    /\ [][(program = "ARISRobot" /\ last_sent' # last_sent /\ last_sent' # NoMsg) =>
            pc \in {"elect_body", "steady_body"}]_vars
    /\ [][(program = "Aris" /\ last_sent' # last_sent /\ last_sent' # NoArisMsg) =>
            pc = "announce_body"]_vars

\* A participant has just received a peer's announcement while listening; it
\* has not sent anything.
C28_Witness ==
    /\ program = "ARISRobot" /\ running_
    /\ pc = "after_listen" /\ heard_network /\ last_rx = "accepted"
    /\ listen_elapsed > 0
    /\ last_sent = NoMsg


\* C29: the listen duration d drawn on entry to LISTENING (ARISRobot, Aris),
\* in seconds, satisfies 5 <= d < 15.
C29_ListenDurationRange ==
    (program \in {"ARISRobot", "Aris"} /\ pc \in {"listen", "listen_body", "listen_sleep"}) =>
        (ListenSecondsMin <= listen_duration /\ listen_duration < ListenSecondsMax)


\* C30: a refill tick that finds more than 100 ms elapsed since
\* last_token_update_ adds bandwidth_mbps * elapsed / 10 tokens (bandwidth 10,
\* integer division), caps the sum at 1000 and sets last_token_update_ to now;
\* a tick that finds 100 ms or less changes neither tokens_ nor
\* last_token_update_, so the time it found is still counted by the next tick.
C30_RefillAmount ==
    [][(program = "Bucket" /\ UpdateTokens) =>
         IF elapsed > 100
         THEN /\ last_refill' = (10 * elapsed) \div 10
              /\ tokens_' = IF tokens_ + (10 * elapsed) \div 10 > 1000
                            THEN 1000 ELSE tokens_ + (10 * elapsed) \div 10
              /\ elapsed' = 0
         ELSE /\ tokens_' = tokens_
              /\ elapsed' = elapsed
              /\ last_refill' = 0]_vars

\* A tick at 100 ms added nothing and kept the time; the next tick, 100 ms
\* later, has added the tokens of the whole 200 ms to a bucket below its cap.
C30_Witness ==
    /\ program = "Bucket"
    /\ last_refill = 2 * RefillThresholdMs
    /\ elapsed = 0
    /\ tokens_ < TokenCap


\* The time between the k-th message the observer saw and the one before it.
SendGap(k) == observed.sent[k].at - observed.sent[k - 1].at

C32_TypeIsolation ==
    [][(program = "Channel" /\ codec.pc = "sent" /\ codec'.pc = "received") =>
         /\ Len(handler_log'.invoked) = 1
         /\ handler_log'.invoked[1].engine = codec.variant
         /\ (codec.variant # "Discovery") => all_discoveries_' = all_discoveries_
         /\ (codec.variant # "Communication") => all_communication_' = all_communication_
         /\ (codec.variant # "Position") => all_position_' = all_position_
         /\ LET a == handler_log'.invoked[1].address
            IN CASE codec.variant = "Discovery" ->
                        a \in DOMAIN all_discoveries_' /\ all_discoveries_'[a] = codec.msg
                 [] codec.variant = "Communication" ->
                        a \in DOMAIN all_communication_' /\ all_communication_'[a] = codec.msg
                 [] codec.variant = "Position" ->
                        a \in DOMAIN all_position_' /\ all_position_'[a] = codec.msg]_vars

\* A Communication message of a peer has gone through the callback: one
\* handler ran and the message is in all_communication_ alone.
C32_Witness ==
    /\ program = "Channel" /\ codec.pc = "received" /\ codec.variant = "Communication"
    /\ Len(handler_log.invoked) = 1
    /\ PeerAddress \in DOMAIN all_communication_
    /\ all_discoveries_ = EmptyMap /\ all_position_ = EmptyMap

\* C34: once chosen_protocol_ is different from NONE no step changes it,
\* whatever the participant receives.
C34_ProtocolStable ==
    [][(program = "ARISRobot" /\ chosen_protocol_ # NONE)
          => chosen_protocol_' = chosen_protocol_]_vars

\* The participant selected ZENOH for itself and has since stored a peer that
\* advertises MQTT.
C34_Witness ==
    /\ program = "ARISRobot" /\ chosen_protocol_ = ZENOH /\ ~heard_network
    /\ "P1" \in DOMAIN known_robots_
    /\ known_robots_["P1"].protocol = MQTT

\* r has stored an announcement of the other participant in known_robots_.
AcceptedPeer(r) == Peer(r) \in DOMAIN net.robot[r].known_robots_

\* C33: whenever two participants have each accepted an announcement of the
\* other into their peer tables, their chosen protocols are equal.
C33_ProtocolAgreement ==
    (program = "Network" /\ \A r \in Participants : AcceptedPeer(r)) =>
        net.robot["A"].chosen_protocol_ = net.robot["B"].chosen_protocol_

\* C35: in a network of ARISRobots every announcement, sent or still queued,
\* carries a protocol different from NONE; a participant that has sent, or
\* has left the listening phase for the election or the steady loop, has a
\* protocol, and one that heard a peer did not adopt NONE from it.
C35_AnnouncementsCarryProtocol ==
    program = "Network" =>
        \A r \in Participants :
            LET s == net.robot[r]
            IN /\ s.last_sent # NoMsg => s.last_sent.protocol # NONE
               /\ \A k \in DOMAIN net.queue[r] : net.queue[r][k].protocol # NONE
               /\ s.announced > 0 => s.chosen_protocol_ # NONE
               /\ s.pc \in {"elect", "elect_body", "elect_burst", "steady", "steady_burst"}
                      => s.chosen_protocol_ # NONE
               /\ s.heard_network => s.chosen_protocol_ # NONE

\* B heard A's announcement while it listened, adopted DDS_RTPS from it and
\* has announced itself with that protocol.
C35_Witness ==
    /\ program = "Network"
    /\ net.robot["B"].heard_network
    /\ net.robot["B"].chosen_protocol_ = DDS_RTPS
    /\ net.robot["B"].last_sent # NoMsg
    /\ net.robot["B"].last_sent.protocol = DDS_RTPS

\* C36: every message the periodic timer emits has, apart from its
\* timestamp, the field values of a message that was passed to set_broadcast;
\* none is emitted before the first call has stored its message.
C36_PeriodicPayloadIntegrity ==
    (program = "Broadcast" /\ wire # <<>>) =>
        /\ broadcast_args # NoArgs
        /\ \E m \in BroadcastMessages : SameApartFromTimestamp(wire[1], m)

\* Where the discovery thread is about to call recvfrom (receive_message) or
\* sendto (send_agent_message, once consume_tokens has granted it).
SocketUsePcs == {"listen_body", "elect_burst_body", "steady_burst_body", "elect_body",
                 "steady_body"}

\* C37: once stop() has closed the multicast socket the discovery thread makes
\* no step that calls recvfrom or sendto on it.
C37_NoSocketUseAfterClose ==
    [][(program = "ARISRobot" /\ main_pc = "stop_join" /\ multicast_fd_ = "closed")
          => ~(pc \in SocketUsePcs /\ pc' # pc)]_vars

C39_TokensNeverNegative == program = "Bucket" => tokens_ >= 0

\* C40: in every state, every entry of a policy-gated participant's peer table
\* other than the entry under its own key holds a capability_index that the
\* sharing policy accepts for the participant's own capability.
C40_OnlyShareablePeersStored ==
    /\ program \in {"ARISRobot", "Aris"} =>
          \A k \in DOMAIN known_robots_ \ {Self} :
              should_share_info_with(capability_index_, known_robots_[k].capability_index)
    /\ program = "AgentV1" =>
          \A k \in DOMAIN known_agents_ \ {OwnAddress} :
              should_share_info_with(capability_index_, known_agents_[k].capability_index)

\* A participant that holds its own entry, which the policy would turn down,
\* and a peer's, has just turned an announcement down.
C40_Witness ==
    /\ program = "Aris" /\ last_rx = "rejected"
    /\ Self \in DOMAIN known_robots_ /\ "P1" \in DOMAIN known_robots_
    /\ ~should_share_info_with(capability_index_, known_robots_[Self].capability_index)

====
